---- MODULE Spec2Model ----
(***************************************************************************)
(* Model of the claudefront backend: the GameEngine (game/state.rs,        *)
(* game/combat.rs), the AIEngine (game/ai.rs) and the periodic task and    *)
(* command handler of GameSession (websocket/session.rs).                  *)
(*                                                                         *)
(* Numbers.  The code computes with f32 and truncates to u32.  The model   *)
(* keeps every ratio as an integer number of hundredths (troop_ratio 0.5   *)
(* is 50), every multiplier as tenths or hundredths and the game speed as  *)
(* tenths (1.0 is 10), and computes each "(x as f32 * r) as u32" as the    *)
(* floor of the exact product.  For the ratios, multipliers and value      *)
(* ranges of this model the f32 result and the exact floor coincide in     *)
(* troops(), the committed force, the combat formula, the clock and the    *)
(* population growth; the gold accrual can differ by one unit of gold      *)
(* where the exact product is an integer.                                  *)
(***************************************************************************)
EXTENDS Integers, Sequences, FiniteSets, TLC

(***************************************************************************)
(* Bounds of the model.  MaxTick: iterations of the periodic task, and     *)
(* MaxCmds: client commands, in Spec.  MaxRounds and MaxOrders: iterations *)
(* and attack orders in SpecCampaign.  MaxAttacks: commands in SpecAttack  *)
(* and SpecCombat.  MaxTroops: the troops drawn for calculate_combat.      *)
(* MaxCounts: the territory counts drawn for check_game_over.              *)
(***************************************************************************)
MaxTick == 3
MaxCmds == 1
MaxOrders == 3
MaxRounds == 2
MaxAttacks == 1
MaxTroops == 12
MaxCounts == 10
MaxBuilds == 2
MaxClockTicks == 12
MaxConnections == 2
MaxLoopTicks == 6
MaxLockTicks == 1
MaxLockCmds == 2
MaxGuardSteps == 2

(***************************************************************************)
(* Program constants.  main.rs builds the map with MapGenerator::new(75,   *)
(* 9); the model runs the generator for 5 territories and 3 participants   *)
(* (one human, two AI).                                                    *)
(***************************************************************************)
tick_rate_ms == 100
territory_count == 5
player_count == 3
StartPopulation == 1000
StartMaxPopulation == 10000
StartGold == 500
StartTroops == 500
CityCost == 1000
DefensePostCost == 500
GoldMineCost == 750
CityPopulationBonus == 25000

TerritoryIds == 1..territory_count
PlayerIds == 1..player_count
\* an identifier that names no territory (lookup fails with "Territory not found")
UnknownTerritory == territory_count + 1
\* Option::None for owners; territories and players are numbered from 1
None == 0
NoBuilding == "NoBuilding"
NoPersonality == "NoPersonality"

TerrainType == {"Plains", "Mountains", "Forests", "Water"}
BuildingType == {"City", "DefensePost", "GoldMine"}
AIPersonality == {"Turtle", "Aggressor", "Balanced", "Opportunist", "Rusher"}

\* the first player is the human, the rest are AI (generate_players); every
\* connection is bound to the first non-AI player (handle_socket)
HumanPlayer == 1

(***************************************************************************)
(* The adjacency lists MapGenerator::connect_territories produces for 5    *)
(* territories on the 3-wide grid when every territory draws 3 nearest     *)
(* neighbours: picks first (by distance), then the back-links pushed by    *)
(* the symmetrisation pass.  Territories 3 and 4 are not adjacent.         *)
(***************************************************************************)
neighbors ==
  << <<2, 4, 5, 3>>, <<1, 3, 5, 4>>, <<2, 5, 1>>, <<1, 5, 2>>, <<2, 4, 1, 3>> >>

SeqContains(seq, x) == \E i \in 1..Len(seq) : seq[i] = x

(***************************************************************************)
(* types/entities.rs                                                       *)
(***************************************************************************)
\* TerrainType::gold_multiplier, in tenths
terrain_gold_multiplier(terrain) == IF terrain = "Plains" THEN 12 ELSE 10

\* a defense multiplier that forgets the mountains
terrain_defense_multiplier_flat(terrain) == 10

\* TerrainType::defense_multiplier, in tenths
terrain_defense_multiplier(terrain) == IF terrain = "Mountains" THEN 7 ELSE 10

\* TerrainType::population_growth_multiplier, in tenths
population_growth_multiplier(terrain) == IF terrain = "Forests" THEN 12 ELSE 10

\* a cost table that charges every structure the price of a Defense-Post
cost_flat(building_type) == DefensePostCost

\* BuildingType::cost
cost(building_type) ==
  CASE building_type = "City" -> CityCost
    [] building_type = "DefensePost" -> DefensePostCost
    [] building_type = "GoldMine" -> GoldMineCost

\* BuildingType::max_population_bonus
max_population_bonus(building_type) ==
  IF building_type = "City" THEN CityPopulationBonus ELSE 0

\* BuildingType::defense_multiplier, in tenths
building_defense_multiplier(building) == IF building = "DefensePost" THEN 8 ELSE 10

\* BuildingType::gold_multiplier, in tenths
building_gold_multiplier(building) == IF building = "GoldMine" THEN 15 ELSE 10

\* Player::troops
troops(player) == (player.population * player.troop_ratio) \div 100

\* Player::workers
workers(player) == player.population - troops(player)

\* f32::clamp
clamp(x, lo, hi) == IF x < lo THEN lo ELSE IF x > hi THEN hi ELSE x

\* u32::saturating_sub
saturating_sub(a, b) == IF a > b THEN a - b ELSE 0

min(a, b) == IF a < b THEN a ELSE b

\* the territories a player owns
Owned(s, p) == {t \in TerritoryIds : s.territories[t].owner = p}

RECURSIVE SumOver(_, _)
SumOver(f, S) ==
  IF S = {} THEN 0
  ELSE LET x == CHOOSE y \in S : TRUE IN f[x] + SumOver(f, S \ {x})

\* floor(x * m / d) without leaving the 32-bit range of the checker
MulDiv(x, m, d) == (x \div d) * m + ((x % d) * m) \div d

(***************************************************************************)
(* game/state.rs                                                           *)
(***************************************************************************)
\* GameEngine::calculate_population_growth_bonus, as <<numerator, denominator>>
calculate_population_growth_bonus(s, player_id) ==
  LET owned == Owned(s, player_id)
      mult == [t \in TerritoryIds |-> population_growth_multiplier(s.territories[t].terrain)]
      total_multiplier == 10 + SumOver(mult, owned)
      count == Cardinality(owned)
  IN IF count > 0 THEN <<total_multiplier, 10 * count>> ELSE <<1, 1>>

\* GameEngine::calculate_gold_generation_bonus, as <<numerator, denominator>>
calculate_gold_generation_bonus(s, player_id) ==
  LET owned == Owned(s, player_id)
      mult == [t \in TerritoryIds |->
                 terrain_gold_multiplier(s.territories[t].terrain)
                   * building_gold_multiplier(s.territories[t].building)]
      total_multiplier == 100 + SumOver(mult, owned)
      count == Cardinality(owned)
  IN IF count > 0 THEN <<total_multiplier, 100 * count>> ELSE <<1, 1>>

\* one player's share of GameEngine::update_resources
accrue(s, player) ==
  LET player_id == player.id
      dt == tick_rate_ms * s.game_speed              \* seconds * 10000
      terrain_bonus == calculate_population_growth_bonus(s, player_id)
      population_growth ==
        (10 * player.territories_controlled * terrain_bonus[1] * dt)
          \div (terrain_bonus[2] * 10000)
      gold_bonus == calculate_gold_generation_bonus(s, player_id)
      gold_generation ==
        MulDiv(workers(player) * gold_bonus[1], dt, 10000) \div (10 * gold_bonus[2])
  IN [player EXCEPT
        !.population = min(player.population + population_growth, player.max_population),
        !.gold = player.gold + gold_generation]

\* GameEngine::update_resources
update_resources(s) ==
  [s EXCEPT !.players =
     [p \in PlayerIds |->
        IF s.players[p].is_alive THEN accrue(s, s.players[p]) ELSE s.players[p]]]

\* update_territory_counts with the elimination pass run on the counts as they
\* stood before the recount
update_territory_counts_stale(s) ==
  LET counted == [p \in PlayerIds |-> Cardinality(Owned(s, p))]
  IN [s EXCEPT !.players =
        [p \in PlayerIds |->
           [s.players[p] EXCEPT
              !.territories_controlled = counted[p],
              !.is_alive = IF s.players[p].territories_controlled = 0
                              /\ s.players[p].is_alive
                           THEN FALSE ELSE s.players[p].is_alive]]]

\* update_territory_counts without the elimination pass
update_territory_counts_no_elimination(s) ==
  LET counted == [p \in PlayerIds |-> Cardinality(Owned(s, p))]
  IN [s EXCEPT !.players =
        [p \in PlayerIds |->
           [s.players[p] EXCEPT !.territories_controlled = counted[p]]]]

\* update_territory_counts that eliminates a participant down to its last
\* territory
update_territory_counts_last_territory(s) ==
  LET counted == [p \in PlayerIds |-> Cardinality(Owned(s, p))]
  IN [s EXCEPT !.players =
        [p \in PlayerIds |->
           [s.players[p] EXCEPT
              !.territories_controlled = counted[p],
              !.is_alive = IF counted[p] <= 1 /\ s.players[p].is_alive
                           THEN FALSE ELSE s.players[p].is_alive]]]

\* GameEngine::update_territory_counts
update_territory_counts(s) ==
  LET counted == [p \in PlayerIds |-> Cardinality(Owned(s, p))]
  IN [s EXCEPT !.players =
        [p \in PlayerIds |->
           [s.players[p] EXCEPT
              !.territories_controlled = counted[p],
              !.is_alive = IF counted[p] = 0 /\ s.players[p].is_alive
                           THEN FALSE ELSE s.players[p].is_alive]]]

\* tick without the test of the pause flag
tick_ignoring_pause(s) ==
  LET s1 == [s EXCEPT
               !.tick = s.tick + 1,
               !.game_time_seconds =
                  s.game_time_seconds + (tick_rate_ms * s.game_speed) \div 10000]
  IN update_territory_counts(update_resources(s1))

\* tick without the recount of the territories
tick_no_recount(s) ==
  IF s.is_paused THEN s
  ELSE LET s1 == [s EXCEPT
                    !.tick = s.tick + 1,
                    !.game_time_seconds =
                       s.game_time_seconds + (tick_rate_ms * s.game_speed) \div 10000]
       IN update_resources(s1)

\* GameEngine::tick
tick(s) ==
  IF s.is_paused THEN s
  ELSE LET s1 == [s EXCEPT
                    !.tick = s.tick + 1,
                    !.game_time_seconds =
                       s.game_time_seconds + (tick_rate_ms * s.game_speed) \div 10000]
       IN update_territory_counts(update_resources(s1))

\* set_troop_ratio that clamps only from below
set_troop_ratio_no_upper(s, player_id, ratio) ==
  [s EXCEPT !.players[player_id].troop_ratio = IF ratio < 0 THEN 0 ELSE ratio]

\* GameEngine::set_troop_ratio
set_troop_ratio(s, player_id, ratio) ==
  [s EXCEPT !.players[player_id].troop_ratio = clamp(ratio, 0, 100)]

\* GameEngine::set_attack_ratio
set_attack_ratio(s, player_id, ratio) ==
  [s EXCEPT !.players[player_id].attack_ratio = clamp(ratio, 0, 100)]

Ok(s) == [ok |-> TRUE, err |-> "", state |-> s]
Err(s, message) == [ok |-> FALSE, err |-> message, state |-> s]

\* build_structure without the test of the builder's gold (the subtraction
\* stops at zero)
build_structure_no_gold_check(s, player_id, territory_id, building_type) ==
  IF territory_id \notin TerritoryIds THEN Err(s, "Territory not found")
  ELSE IF s.territories[territory_id].owner # player_id
    THEN Err(s, "You don't own this territory")
  ELSE IF s.territories[territory_id].building # NoBuilding
    THEN Err(s, "Territory already has a building")
  ELSE Ok([s EXCEPT
             !.players[player_id].gold = saturating_sub(@, cost(building_type)),
             !.players[player_id].max_population =
                IF building_type = "City"
                THEN @ + max_population_bonus(building_type) ELSE @,
             !.territories[territory_id].building = building_type])

\* build_structure without the test for a structure already in place
build_structure_no_occupied_check(s, player_id, territory_id, building_type) ==
  IF territory_id \notin TerritoryIds THEN Err(s, "Territory not found")
  ELSE IF s.territories[territory_id].owner # player_id
    THEN Err(s, "You don't own this territory")
  ELSE IF s.players[player_id].gold < cost(building_type)
    THEN Err(s, "Not enough gold")
  ELSE Ok([s EXCEPT
             !.players[player_id].gold = @ - cost(building_type),
             !.players[player_id].max_population =
                IF building_type = "City"
                THEN @ + max_population_bonus(building_type) ELSE @,
             !.territories[territory_id].building = building_type])

\* GameEngine::build_structure
build_structure(s, player_id, territory_id, building_type) ==
  IF territory_id \notin TerritoryIds THEN Err(s, "Territory not found")
  ELSE IF s.territories[territory_id].owner # player_id
    THEN Err(s, "You don't own this territory")
  ELSE IF s.territories[territory_id].building # NoBuilding
    THEN Err(s, "Territory already has a building")
  ELSE IF s.players[player_id].gold < cost(building_type)
    THEN Err(s, "Not enough gold")
  ELSE Ok([s EXCEPT
             !.players[player_id].gold = @ - cost(building_type),
             !.players[player_id].max_population =
                IF building_type = "City"
                THEN @ + max_population_bonus(building_type) ELSE @,
             !.territories[territory_id].building = building_type])

NoStats == [some |-> FALSE, winner |-> None, game_duration_seconds |-> 0,
            territories_captured |-> 0, total_battles |-> 0, final_score |-> 0]

\* check_game_over that adds the whole gold to the score
check_game_over_whole_gold(s) ==
  LET alive_players == {p \in PlayerIds : s.players[p].is_alive}
  IN IF Cardinality(alive_players) = 1
     THEN LET winner == s.players[CHOOSE p \in alive_players : TRUE]
          IN [some |-> TRUE, winner |-> winner.id,
              game_duration_seconds |-> s.game_time_seconds,
              territories_captured |-> winner.territories_controlled,
              total_battles |-> 0,
              final_score |-> winner.territories_controlled * 100 + winner.gold]
     ELSE NoStats

\* check_game_over that already ends the game when two are left
check_game_over_two_left(s) ==
  LET alive_players == {p \in PlayerIds : s.players[p].is_alive}
  IN IF Cardinality(alive_players) \in {1, 2}
     THEN LET winner == s.players[CHOOSE p \in alive_players : TRUE]
          IN [some |-> TRUE, winner |-> winner.id,
              game_duration_seconds |-> s.game_time_seconds,
              territories_captured |-> winner.territories_controlled,
              total_battles |-> 0,
              final_score |-> winner.territories_controlled * 100 + winner.gold \div 10]
     ELSE NoStats

\* GameEngine::check_game_over
check_game_over(s) ==
  LET alive_players == {p \in PlayerIds : s.players[p].is_alive}
  IN IF Cardinality(alive_players) = 1
     THEN LET winner == s.players[CHOOSE p \in alive_players : TRUE]
          IN [some |-> TRUE, winner |-> winner.id,
              game_duration_seconds |-> s.game_time_seconds,
              territories_captured |-> winner.territories_controlled,
              total_battles |-> 0,
              final_score |-> winner.territories_controlled * 100 + winner.gold \div 10]
     ELSE NoStats

\* GameEngine::set_paused
set_paused(s, paused) == [s EXCEPT !.is_paused = paused]

\* set_game_speed that clamps only from below
set_game_speed_no_upper(s, speed) ==
  [s EXCEPT !.game_speed = IF speed < 5 THEN 5 ELSE speed]

\* GameEngine::set_game_speed, in tenths
set_game_speed(s, speed) == [s EXCEPT !.game_speed = clamp(speed, 5, 40)]

(***************************************************************************)
(* game/combat.rs                                                          *)
(***************************************************************************)
\* GameEngine::calculate_combat
calculate_combat(s, attacker_troops, defender_troops, defender_territory) ==
  LET territory == s.territories[defender_territory]
      \* hundredths: terrain tenths times building tenths
      defense_multiplier ==
        terrain_defense_multiplier(territory.terrain)
          * building_defense_multiplier(territory.building)
      base ==
        IF attacker_troops > defender_troops
          THEN <<(defender_troops * 3) \div 10, defender_troops>>
        ELSE IF attacker_troops < defender_troops
          THEN <<attacker_troops, (attacker_troops * 5) \div 10>>
        ELSE <<(attacker_troops * 7) \div 10, (defender_troops * 7) \div 10>>
      defender_losses == (base[2] * defense_multiplier) \div 100
  IN [attacker_losses |-> base[1],
      defender_losses |-> defender_losses,
      territory_conquered |-> defender_troops <= defender_losses]

NoResult == [attacker_id |-> None, defender_id |-> None, from_territory |-> None,
             to_territory |-> None, attacker_troops_committed |-> 0,
             defender_troops |-> 0, attacker_losses |-> 0, defender_losses |-> 0,
             territory_conquered |-> FALSE]

AttackErr(s, message) ==
  [ok |-> FALSE, err |-> message, state |-> s, result |-> NoResult]

\* execute_attack's validation without the neighbour test
attack_validation_no_adjacency(s, attacker_id, from_territory, to_territory) ==
  IF from_territory \notin TerritoryIds THEN "Territory not found"
  ELSE IF s.territories[from_territory].owner # attacker_id
    THEN "You don't own the attacking territory"
  ELSE IF to_territory \notin TerritoryIds THEN "Territory not found"
  ELSE IF s.territories[to_territory].owner = attacker_id
    THEN "Can't attack your own territory"
  ELSE ""

\* GameEngine::execute_attack, the validation of ownership and adjacency:
\* the error message, "" when the attack may proceed
attack_validation(s, attacker_id, from_territory, to_territory) ==
  IF from_territory \notin TerritoryIds THEN "Territory not found"
  ELSE IF s.territories[from_territory].owner # attacker_id
    THEN "You don't own the attacking territory"
  ELSE IF ~SeqContains(neighbors[from_territory], to_territory)
    THEN "Territories are not neighbors"
  ELSE IF to_territory \notin TerritoryIds THEN "Territory not found"
  ELSE IF s.territories[to_territory].owner = attacker_id
    THEN "Can't attack your own territory"
  ELSE ""

\* the force execute_attack commits
committed_troops(attacker) == (troops(attacker) * attacker.attack_ratio) \div 100

\* the Ok value of execute_attack: the state after the losses and the territory
\* update have been applied, and the CombatResult
attack_outcome(s, attacker_id, from_territory, to_territory) ==
  LET to == s.territories[to_territory]
      defender_id == to.owner
      attacker_troops == committed_troops(s.players[attacker_id])
      defender_troops == to.troops
      combat == calculate_combat(s, attacker_troops, defender_troops, to_territory)
      s1 == [s EXCEPT !.players[attacker_id].population =
                        saturating_sub(@, combat.attacker_losses)]
      s2 == IF defender_id # None
            THEN [s1 EXCEPT !.players[defender_id].population =
                              saturating_sub(@, combat.defender_losses)]
            ELSE s1
      s3 == IF combat.territory_conquered
            THEN [s2 EXCEPT !.territories[to_territory].owner = attacker_id,
                            !.territories[to_territory].troops =
                               attacker_troops - combat.attacker_losses]
            ELSE [s2 EXCEPT !.territories[to_territory].troops =
                               saturating_sub(defender_troops, combat.defender_losses)]
  IN [ok |-> TRUE, err |-> "", state |-> s3,
      result |-> [attacker_id |-> attacker_id,
                  defender_id |-> defender_id,
                  from_territory |-> from_territory,
                  to_territory |-> to_territory,
                  attacker_troops_committed |-> attacker_troops,
                  defender_troops |-> defender_troops,
                  attacker_losses |-> combat.attacker_losses,
                  defender_losses |-> combat.defender_losses,
                  territory_conquered |-> combat.territory_conquered]]

\* attack_resolution that lets an attack with no committed troops proceed
attack_resolution_no_zero_check(s, attacker_id, from_territory, to_territory) ==
  attack_outcome(s, attacker_id, from_territory, to_territory)

\* attack_resolution that garrisons a conquered territory with the whole
\* committed force
attack_resolution_full_garrison(s, attacker_id, from_territory, to_territory) ==
  IF committed_troops(s.players[attacker_id]) = 0
  THEN AttackErr(s, "No troops available to attack")
  ELSE LET r == attack_outcome(s, attacker_id, from_territory, to_territory)
       IN IF r.result.territory_conquered
          THEN [r EXCEPT !.state.territories[to_territory].troops =
                            r.result.attacker_troops_committed]
          ELSE r

\* attack_resolution that leaves a territory without owner when the attack
\* fails to conquer it
attack_resolution_abandons_defended(s, attacker_id, from_territory, to_territory) ==
  IF committed_troops(s.players[attacker_id]) = 0
  THEN AttackErr(s, "No troops available to attack")
  ELSE LET r == attack_outcome(s, attacker_id, from_territory, to_territory)
       IN IF r.result.territory_conquered THEN r
          ELSE [r EXCEPT !.state.territories[to_territory].owner = None]

\* GameEngine::execute_attack after the validation: the committed force, the
\* combat, the losses and the territory update
attack_resolution(s, attacker_id, from_territory, to_territory) ==
  IF committed_troops(s.players[attacker_id]) = 0
  THEN AttackErr(s, "No troops available to attack")
  ELSE attack_outcome(s, attacker_id, from_territory, to_territory)

\* GameEngine::execute_attack
execute_attack(s, attacker_id, from_territory, to_territory) ==
  LET message == attack_validation(s, attacker_id, from_territory, to_territory)
  IN IF message # "" THEN AttackErr(s, message)
     ELSE attack_resolution(s, attacker_id, from_territory, to_territory)

\* GameEngine::distribute_troops
distribute_troops(s, player_id) ==
  LET player == s.players[player_id]
      total_troops == troops(player)
      count == player.territories_controlled
  IN IF count = 0 THEN s
     ELSE [s EXCEPT !.territories =
             [t \in TerritoryIds |->
                IF s.territories[t].owner = player_id
                THEN [s.territories[t] EXCEPT !.troops = total_troops \div count]
                ELSE s.territories[t]]]

(***************************************************************************)
(* game/ai.rs                                                              *)
(***************************************************************************)
\* AIEngine::update_ratios
update_ratios(s, player_id, personality) ==
  LET game_time == s.game_time_seconds
      count == s.players[player_id].territories_controlled
      ratios ==
        CASE personality = "Turtle" -> <<IF game_time < 180 THEN 30 ELSE 50, 15>>
          [] personality = "Aggressor" -> <<70, 40>>
          [] personality = "Balanced" -> <<IF count < 5 THEN 50 ELSE 60, 25>>
          [] personality = "Opportunist" -> <<50, 20>>
          [] personality = "Rusher" -> <<100, 50>>
  IN set_attack_ratio(set_troop_ratio(s, player_id, ratios[1]), player_id, ratios[2])

\* the priority table of AIEngine::try_build
building_priority(personality) ==
  CASE personality = "Turtle" -> <<"DefensePost", "City", "GoldMine">>
    [] personality = "Aggressor" -> <<"City", "GoldMine", "DefensePost">>
    [] personality = "Balanced" -> <<"GoldMine", "City", "DefensePost">>
    [] personality = "Opportunist" -> <<"GoldMine", "DefensePost", "City">>
    [] personality = "Rusher" -> <<"City", "GoldMine", "DefensePost">>

\* AIEngine::try_build: the states it can leave, one per territory the
\* random index can pick
try_build(s, player_id, personality) ==
  LET gold == s.players[player_id].gold
      priority == building_priority(personality)
      affordable == {i \in 1..Len(priority) : gold >= cost(priority[i])}
      territories == {t \in TerritoryIds :
                        /\ s.territories[t].owner = player_id
                        /\ s.territories[t].building = NoBuilding}
  IN IF affordable = {} \/ territories = {} THEN {s}
     ELSE LET first == CHOOSE i \in affordable : \A j \in affordable : i <= j
          IN {build_structure(s, player_id, t, priority[first]).state : t \in territories}

\* the (from, to, defender troops, defender's territory count) entries one
\* owned territory contributes to attack_options, in neighbour order
OptionsFrom(s, player_id, territory_id) ==
  LET ns == neighbors[territory_id]
      entry(i) == <<territory_id, ns[i], s.territories[ns[i]].troops,
                    IF s.territories[ns[i]].owner = None THEN 0
                    ELSE s.players[s.territories[ns[i]].owner].territories_controlled>>
      all == [i \in 1..Len(ns) |-> entry(i)]
      Foreign(e) == /\ s.territories[e[2]].owner # player_id
                    /\ s.territories[e[2]].owner # None
  IN SelectSeq(all, Foreign)

RECURSIVE OptionsUpTo(_, _, _)
OptionsUpTo(s, player_id, n) ==
  IF n = 0 THEN <<>>
  ELSE OptionsUpTo(s, player_id, n - 1)
         \o (IF s.territories[n].owner = player_id
             THEN OptionsFrom(s, player_id, n) ELSE <<>>)

\* the attack_options list of AIEngine::try_attack
attack_options(s, player_id) == OptionsUpTo(s, player_id, territory_count)

\* lexicographic order on the keys of min_by_key
KeyLess(a, b) == a[1] < b[1] \/ (a[1] = b[1] /\ a[2] < b[2])

\* Iterator::min_by_key: the first element with the least key, as a sequence
\* of at most one element; keys[i] is the key of seq[i]
MinByKey(seq, keys) ==
  IF seq = <<>> THEN <<>>
  ELSE LET i == CHOOSE i \in 1..Len(seq) :
                  /\ \A j \in 1..Len(seq) : ~KeyLess(keys[j], keys[i])
                  /\ \A j \in 1..(i - 1) : KeyLess(keys[i], keys[j])
       IN <<seq[i]>>

\* attack_targets with a Turtle that attacks whenever it outnumbers the
\* defender at all
attack_targets_turtle_no_factor(s, player_id, personality) ==
  LET options == attack_options(s, player_id)
      our_troops == troops(s.players[player_id])
      ByTroops(seq) == [i \in 1..Len(seq) |-> <<seq[i][3], 0>>]
      ByTroopsAndCount(seq) == [i \in 1..Len(seq) |-> <<seq[i][3], seq[i][4]>>]
      Outnumbered(e) == our_troops > e[3]
      AsSet(seq) == {seq[i] : i \in 1..Len(seq)}
      weak == SelectSeq(options, Outnumbered)
  IN CASE personality \in {"Turtle", "Balanced"} -> AsSet(MinByKey(weak, ByTroops(weak)))
       [] personality = "Aggressor" -> AsSet(MinByKey(options, ByTroops(options)))
       [] personality = "Opportunist" ->
            AsSet(MinByKey(options, ByTroopsAndCount(options)))
       [] personality = "Rusher" -> AsSet(options)

\* the targets the personality's rule of AIEngine::try_attack can select
\* (one, except for the Rusher's random index; none when no pair qualifies)
attack_targets(s, player_id, personality) ==
  LET options == attack_options(s, player_id)
      our_troops == troops(s.players[player_id])
      ByTroops(seq) == [i \in 1..Len(seq) |-> <<seq[i][3], 0>>]
      ByTroopsAndCount(seq) == [i \in 1..Len(seq) |-> <<seq[i][3], seq[i][4]>>]
      Outnumbered3(e) == our_troops > e[3] * 3
      Outnumbered(e) == our_troops > e[3]
      AsSet(seq) == {seq[i] : i \in 1..Len(seq)}
      weak3 == SelectSeq(options, Outnumbered3)
      weak == SelectSeq(options, Outnumbered)
  IN CASE personality = "Turtle" -> AsSet(MinByKey(weak3, ByTroops(weak3)))
       [] personality = "Aggressor" -> AsSet(MinByKey(options, ByTroops(options)))
       [] personality = "Balanced" -> AsSet(MinByKey(weak, ByTroops(weak)))
       [] personality = "Opportunist" ->
            AsSet(MinByKey(options, ByTroopsAndCount(options)))
       [] personality = "Rusher" -> AsSet(options)

\* AIEngine::try_attack: the outcomes it can have; attacked is FALSE when no
\* target was selected or the probability gate kept the attack back
try_attack(s, player_id, personality) ==
  {[attacked |-> FALSE, ok |-> FALSE, err |-> "", state |-> s, result |-> NoResult]}
    \cup {LET r == execute_attack(s, player_id, target[1], target[2])
          IN [attacked |-> TRUE, ok |-> r.ok, err |-> r.err, state |-> r.state,
              result |-> r.result] :
            target \in attack_targets(s, player_id, personality)}

\* AIEngine::execute_ai_turn: the outcomes of one participant's turn
execute_ai_turn(s, player_id, personality) ==
  UNION {try_attack(built, player_id, personality) :
           built \in try_build(update_ratios(s, player_id, personality),
                               player_id, personality)}

RECURSIVE DistributeUpTo(_, _)
DistributeUpTo(s, n) ==
  IF n = 0 THEN s
  ELSE LET before == DistributeUpTo(s, n - 1)
       IN IF s.players[n].is_alive THEN distribute_troops(before, n) ELSE before

\* the troop distribution at the head of GameEngine::tick_ai
distribute_all(s) == DistributeUpTo(s, player_count)

\* the ai_players list of AIEngine::tick_all
ai_player_list(s) ==
  SelectSeq([p \in PlayerIds |-> p],
            LAMBDA p : s.players[p].is_ai /\ s.players[p].is_alive)

(***************************************************************************)
(* The state of the running program.                                       *)
(***************************************************************************)
VARIABLES
  state,            \* GameEngine::state, the GameState
  engine_lock,      \* the guards held on GameSession::engine: [holder, mode] records
  clients_lock,     \* the guards held on GameSession::clients: [holder, mode] records
  handlers,         \* per connection: where its handle_socket stands and what it handles
  clients,          \* GameSession::clients, the ClientSession list in registration order
  outbox,           \* per connection: the messages the last step put on its channel
  loop_pc,          \* where the periodic task of start_game_loop stands
  ai_players,       \* tick_all: the AI participants that still take their turn
  stats,            \* the GameStats check_game_over returned to the periodic task
  sent_game_over,   \* number of GameOver broadcasts
  last_snapshot,    \* tick counter carried by the last periodic GameStateUpdate (-1: none)
  cmds_left,        \* client commands still to be handled within the bound
  ticks_left,       \* iterations of the periodic task still to run within the bound
  last              \* the operation that produced this state, its inputs and its result

vars == <<state, engine_lock, clients_lock, handlers, clients, outbox, loop_pc, ai_players,
          stats, sent_game_over, last_snapshot, cmds_left, ticks_left, last>>

\* the connections a run opens, and the holder of the periodic task's guards
Connections == 1..MaxConnections
TickTask == 0

\* RwLock guards on the engine
WriteGuard(holder) == [holder |-> holder, mode |-> "write"]
ReadGuard(holder) == [holder |-> holder, mode |-> "read"]

\* a lock that grants the write guard while read guards are out
CanWrite_beside_readers == \A guard \in engine_lock : guard.mode = "read"

\* RwLock::write is granted when no guard is out, RwLock::read when no write
\* guard is out
CanWrite == engine_lock = {}
CanRead == \A guard \in engine_lock : guard.mode = "read"

\* the same for the RwLock on GameSession::clients
CanWriteClients == clients_lock = {}
CanReadClients == \A guard \in clients_lock : guard.mode = "read"

\* the recv task of a connection between two messages, and a connection
\* that is not open
NoClientMessage == [type |-> "None", from |-> None, to |-> None]
\* (result is what execute_attack returned to the handler, order the number
\* of commands still to come when the handler was granted its guard: the
\* larger, the earlier)
Receiving ==
  [pc |-> "recv", message |-> NoClientMessage, verdict |-> "",
   result |-> [ok |-> TRUE, err |-> "", result |-> NoResult], order |-> 0]
Closed == [Receiving EXCEPT !.pc = "closed"]

\* ServerMessage
ServerMessage(type, payload) == [type |-> type, payload |-> payload]
NoMessages == [conn \in Connections |-> <<>>]

\* GameSession::broadcast
broadcast(queues, message) ==
  [conn \in Connections |->
     IF \E i \in DOMAIN clients : clients[i].conn = conn
     THEN Append(queues[conn], message) ELSE queues[conn]]

\* GameSession::send_to_client: the first ClientSession with the player_id
send_to_client(queues, player_id, message) ==
  LET found == {i \in DOMAIN clients : clients[i].player_id = player_id}
  IN IF found = {} THEN queues
     ELSE LET first == CHOOSE i \in found : \A j \in found : i <= j
          IN [queues EXCEPT ![clients[first].conn] = Append(@, message)]

\* inputs of the commands: ratios in hundredths, speeds in tenths
RatioInputs == {-50, 60, 250}
SpeedInputs == {1, 20, 100}

\* terrains the generator drew for the five territories
TerrainLayouts ==
  { <<"Mountains", "Plains", "Forests", "Water", "Plains">> }

\* garrisons the generator drew for the neutral territories (within 50..150)
NeutralTroops == { <<0, 0, 0, 50, 149>> }

\* the starts of the runs: the personalities the generator drew for the
\* participants (none for the human), and the population they have: the
\* 1000 of a fresh game, or that of a game that has run until the
\* populations stand just below the cap of 10000
Starts ==
  { [personality |-> <<NoPersonality, "Rusher", "Turtle">>,
     population |-> StartPopulation],
    [personality |-> <<NoPersonality, "Aggressor", "Balanced">>,
     population |-> StartMaxPopulation - 1],
    [personality |-> <<NoPersonality, "Opportunist", "Turtle">>,
     population |-> StartPopulation] }

\* the record kept in last: the operation, whether it succeeded, the error
\* message of a failed command, the territory and structure of a successful
\* build, the value a setter was asked to store (the acting participant for
\* an AI turn) and the CombatResult of a successful attack
Op(op, ok, err, territory, building, requested, result) ==
  [op |-> op, ok |-> ok, err |-> err, territory |-> territory, building |-> building,
   requested |-> requested, result |-> result, conn |-> None]

\* MapGenerator::generate_players
generate_player(p, personality, population) ==
  [id |-> p,
   is_ai |-> p # HumanPlayer,
   ai_personality |-> personality,
   population |-> population,
   max_population |-> StartMaxPopulation,
   gold |-> StartGold,
   troop_ratio |-> IF p = HumanPlayer THEN 50
                   ELSE CASE personality = "Rusher" -> 100
                          [] personality = "Turtle" -> 30
                          [] personality = "Aggressor" -> 70
                          [] OTHER -> 50,
   attack_ratio |-> 20,
   territories_controlled |-> 0,
   is_alive |-> TRUE]

\* MapGenerator::generate: with territory_count \div player_count = 1 the
\* participants start on the first player_count territories
generate(layout, neutral, personality, population) ==
  [territories |->
     [t \in TerritoryIds |->
        [owner |-> IF t <= player_count THEN t ELSE None,
         terrain |-> layout[t],
         building |-> NoBuilding,
         troops |-> IF t <= player_count THEN StartTroops ELSE neutral[t]]],
   players |-> [p \in PlayerIds |-> generate_player(p, personality[p], population)],
   tick |-> 0,
   game_speed |-> 10,
   is_paused |-> FALSE,
   game_time_seconds |-> 0]

\* the periodic task and the handlers before anything has run
Idle(ticks, commands) ==
  /\ engine_lock = {}
  /\ clients_lock = {}
  /\ handlers = [conn \in Connections |-> IF conn = 1 THEN Receiving ELSE Closed]
  /\ clients = <<[conn |-> 1, player_id |-> HumanPlayer]>>
  /\ outbox = NoMessages
  /\ loop_pc = "interval"
  /\ ai_players = <<>>
  /\ stats = NoStats
  /\ sent_game_over = 0
  /\ last_snapshot = -1
  /\ cmds_left = commands
  /\ ticks_left = ticks
  /\ last = Op("init", TRUE, "", None, NoBuilding, 0, NoResult)

\* the world of a start: the generated one, or, for a game that has run, the
\* generated one with the counts and the garrisons the periodic task keeps
\* (the tick counter counts from the start of the run)
start_world(layout, neutral, start) ==
  LET w == generate(layout, neutral, start.personality, start.population)
  IN IF start.population = StartPopulation THEN w
     ELSE distribute_all(update_territory_counts(w))

\* the worlds the runs start from
Worlds ==
  {start_world(layout, neutral, start) :
     layout \in TerrainLayouts, neutral \in NeutralTroops, start \in Starts}

Init ==
  /\ state \in Worlds
  /\ Idle(MaxTick, MaxCmds)

(***************************************************************************)
(* websocket/session.rs: the periodic task of start_game_loop.             *)
(***************************************************************************)
\* an iteration that runs engine.tick() under a guard it drops at once
LoopTick_guard_dropped ==
  /\ loop_pc = "interval"
  /\ CanWrite
  /\ ticks_left > 0
  /\ ticks_left' = ticks_left - 1
  /\ state' = tick(state)
  /\ loop_pc' = "tick_ai"
  /\ outbox' = NoMessages
  /\ last' = Op("tick", TRUE, "", None, NoBuilding, 0, NoResult)
  /\ UNCHANGED <<engine_lock, clients_lock, handlers, clients, ai_players, stats,
                 sent_game_over, last_snapshot, cmds_left>>

\* interval.tick() fired: take the write guard and run engine.tick()
LoopTick ==
  /\ loop_pc = "interval"
  /\ CanWrite
  /\ ticks_left > 0
  /\ ticks_left' = ticks_left - 1
  /\ engine_lock' = {WriteGuard(TickTask)}
  /\ state' = tick(state)
  /\ loop_pc' = "tick_ai"
  /\ outbox' = NoMessages
  /\ last' = Op("tick", TRUE, "", None, NoBuilding, 0, NoResult)
  /\ UNCHANGED <<clients_lock, handlers, clients, ai_players, stats, sent_game_over,
                 last_snapshot, cmds_left>>

\* engine.tick_ai() up to the collection of the AI participants
LoopTickAi ==
  /\ loop_pc = "tick_ai"
  /\ state' = distribute_all(state)
  /\ ai_players' = ai_player_list(state')
  /\ loop_pc' = "tick_all"
  /\ outbox' = NoMessages
  /\ last' = Op("tick_ai", TRUE, "", None, NoBuilding, 0, NoResult)
  /\ UNCHANGED <<engine_lock, clients_lock, handlers, clients, stats, sent_game_over,
                 last_snapshot, cmds_left, ticks_left>>

\* a tick_all that returns at the first turn whose attack fails
LoopAiTurn_stops_on_error ==
  /\ loop_pc = "tick_all"
  /\ ai_players # <<>>
  /\ LET player_id == Head(ai_players)
     IN \E out \in execute_ai_turn(state, player_id,
                                   state.players[player_id].ai_personality) :
          /\ state' = out.state
          /\ last' = Op("execute_ai_turn", out.ok, out.err, None, NoBuilding,
                        player_id, out.result)
          /\ ai_players' = IF out.err # "" THEN <<>> ELSE Tail(ai_players)
  /\ outbox' = NoMessages
  /\ UNCHANGED <<engine_lock, clients_lock, handlers, clients, loop_pc, stats,
                 sent_game_over, last_snapshot, cmds_left, ticks_left>>

\* AIEngine::tick_all: the next participant's execute_ai_turn
LoopAiTurn ==
  /\ loop_pc = "tick_all"
  /\ ai_players # <<>>
  /\ LET player_id == Head(ai_players)
     IN \E out \in execute_ai_turn(state, player_id,
                                   state.players[player_id].ai_personality) :
          /\ state' = out.state
          /\ last' = Op("execute_ai_turn", out.ok, out.err, None, NoBuilding,
                        player_id, out.result)
  /\ ai_players' = Tail(ai_players)
  /\ outbox' = NoMessages
  /\ UNCHANGED <<engine_lock, clients_lock, handlers, clients, loop_pc, stats,
                 sent_game_over, last_snapshot, cmds_left, ticks_left>>

\* engine.check_game_over(), then the write guard is dropped
LoopCheckGameOver ==
  /\ loop_pc = "tick_all"
  /\ ai_players = <<>>
  /\ stats' = check_game_over(state)
  /\ loop_pc' = IF stats'.some THEN "broadcast_game_over" ELSE "snapshot"
  /\ engine_lock' = engine_lock \ {WriteGuard(TickTask)}
  /\ outbox' = NoMessages
  /\ last' = Op("check_game_over", stats'.some, "", None, NoBuilding, 0, NoResult)
  /\ UNCHANGED <<clients_lock, state, handlers, clients, ai_players, sent_game_over,
                 last_snapshot, cmds_left, ticks_left>>

\* the broadcast of GameOver without the break that follows it
LoopBroadcastGameOver_no_break ==
  /\ loop_pc = "broadcast_game_over"
  /\ CanReadClients
  /\ sent_game_over' = sent_game_over + 1
  /\ loop_pc' = "snapshot"
  /\ outbox' = broadcast(NoMessages, ServerMessage("GameOver", stats))
  /\ last' = Op("broadcast_game_over", TRUE, "", None, NoBuilding, 0, NoResult)
  /\ UNCHANGED <<state, engine_lock, clients_lock, handlers, clients, ai_players, stats,
                 last_snapshot, cmds_left, ticks_left>>

\* broadcast(GameOver { stats }); break
LoopBroadcastGameOver ==
  /\ loop_pc = "broadcast_game_over"
  /\ CanReadClients
  /\ sent_game_over' = sent_game_over + 1
  /\ loop_pc' = "done"
  /\ outbox' = broadcast(NoMessages, ServerMessage("GameOver", stats))
  /\ last' = Op("broadcast_game_over", TRUE, "", None, NoBuilding, 0, NoResult)
  /\ UNCHANGED <<state, engine_lock, clients_lock, handlers, clients, ai_players, stats,
                 last_snapshot, cmds_left, ticks_left>>

\* let tick = engine.state.tick; if tick % 5 == 0 { broadcast(GameStateUpdate) }
\* The two read guards are taken one after the other; only this task changes
\* the tick counter, so the counter the second one sees is the one just read.
LoopSnapshot ==
  /\ loop_pc = "snapshot"
  /\ CanRead
  /\ state.tick % 5 = 0 => CanReadClients
  /\ last_snapshot' = IF state.tick % 5 = 0 THEN state.tick ELSE last_snapshot
  /\ loop_pc' = "interval"
  /\ outbox' = IF state.tick % 5 = 0
                THEN broadcast(NoMessages, ServerMessage("GameStateUpdate", state))
                ELSE NoMessages
  /\ last' = Op("snapshot", state.tick % 5 = 0, "", None, NoBuilding, 0, NoResult)
  /\ UNCHANGED <<state, engine_lock, clients_lock, handlers, clients, ai_players, stats,
                 sent_game_over, cmds_left, ticks_left>>

(***************************************************************************)
(* websocket/session.rs: GameSession::handle_message, one action per       *)
(* command; the command runs under the engine's write guard.               *)
(***************************************************************************)
CommandEnabled ==
  /\ CanWrite
  /\ cmds_left > 0
  /\ cmds_left' = cmds_left - 1
  /\ UNCHANGED <<engine_lock, clients_lock, handlers, clients, loop_pc, ai_players, stats,
                 sent_game_over, last_snapshot, ticks_left>>

\* the recv task of an open connection takes the next message; every
\* connection acts for the first participant that is not an AI
Issuer(conn) == handlers[conn].pc = "recv"

\* the Attack arm after execute_attack: what it sends
attack_events(r) ==
  LET result == broadcast(NoMessages, ServerMessage("AttackResult", r.result))
  IN IF ~r.ok
     THEN send_to_client(NoMessages, HumanPlayer, ServerMessage("Error", r.err))
     ELSE IF r.result.territory_conquered
     THEN broadcast(result,
                    ServerMessage("TerritoryConquered",
                                  [territory_id |-> r.result.to_territory,
                                   old_owner |-> r.result.defender_id,
                                   new_owner |-> r.result.attacker_id]))
     ELSE result

\* ClientMessage::Attack
Attack(from, to) ==
  /\ CommandEnabled
  /\ \E conn \in Connections :
       /\ Issuer(conn)
       /\ LET r == execute_attack(state, HumanPlayer, from, to)
          IN /\ state' = r.state
             /\ outbox' = attack_events(r)
             /\ last' = [Op("Attack", r.ok, r.err, None, NoBuilding, 0, r.result)
                           EXCEPT !.conn = conn]

\* ClientMessage::BuildStructure
BuildStructure(territory, building_type) ==
  /\ CommandEnabled
  /\ \E conn \in Connections :
       /\ Issuer(conn)
       /\ LET r == build_structure(state, HumanPlayer, territory, building_type)
              completed ==
                broadcast(NoMessages,
                          ServerMessage("BuildingCompleted",
                                        [territory_id |-> territory,
                                         building_type |-> building_type,
                                         player_id |-> HumanPlayer]))
          IN /\ state' = r.state
             /\ outbox' =
                  IF ~r.ok
                  THEN send_to_client(NoMessages, HumanPlayer, ServerMessage("Error", r.err))
                  ELSE broadcast(completed,
                                 ServerMessage("Notification",
                                               [message |-> "Building completed!",
                                                severity |-> "Success"]))
             /\ last' = [Op("BuildStructure", r.ok, r.err,
                            IF r.ok THEN territory ELSE None,
                            IF r.ok THEN building_type ELSE NoBuilding, 0, NoResult)
                           EXCEPT !.conn = conn]

\* a command that answers nothing
Silent(op, requested) ==
  /\ outbox' = NoMessages
  /\ \E conn \in Connections :
       /\ Issuer(conn)
       /\ last' = [Op(op, TRUE, "", None, NoBuilding, requested, NoResult)
                     EXCEPT !.conn = conn]

\* ClientMessage::SetTroopRatio
SetTroopRatio(ratio) ==
  /\ CommandEnabled
  /\ state' = set_troop_ratio(state, HumanPlayer, ratio)
  /\ Silent("SetTroopRatio", ratio)

\* ClientMessage::SetAttackRatio
SetAttackRatio(ratio) ==
  /\ CommandEnabled
  /\ state' = set_attack_ratio(state, HumanPlayer, ratio)
  /\ Silent("SetAttackRatio", ratio)

\* ClientMessage::PauseGame
PauseGame ==
  /\ CommandEnabled
  /\ state' = set_paused(state, TRUE)
  /\ Silent("PauseGame", 0)

\* ClientMessage::ResumeGame
ResumeGame ==
  /\ CommandEnabled
  /\ state' = set_paused(state, FALSE)
  /\ Silent("ResumeGame", 0)

\* ClientMessage::SetGameSpeed
SetGameSpeed(speed) ==
  /\ CommandEnabled
  /\ state' = set_game_speed(state, speed)
  /\ Silent("SetGameSpeed", speed)

Next ==
  \/ LoopTick
  \/ LoopTickAi
  \/ LoopAiTurn
  \/ LoopCheckGameOver
  \/ LoopBroadcastGameOver
  \/ LoopSnapshot
  \/ \E from \in TerritoryIds \cup {UnknownTerritory},
        to \in TerritoryIds \cup {UnknownTerritory} : Attack(from, to)
  \/ \E territory \in TerritoryIds \cup {UnknownTerritory},
        building_type \in BuildingType : BuildStructure(territory, building_type)
  \/ \E ratio \in RatioInputs : SetTroopRatio(ratio)
  \/ \E ratio \in RatioInputs : SetAttackRatio(ratio)
  \/ PauseGame
  \/ ResumeGame
  \/ \E speed \in SpeedInputs : SetGameSpeed(speed)

Spec == Init /\ [][Next]_vars

(***************************************************************************)
(* Attack commands on worlds in the middle of a game: the participants     *)
(* hold the territories in several patterns, and the human's population    *)
(* and ratios, the garrisons, the defenders' populations and the           *)
(* structures are drawn from the cases execute_attack distinguishes.       *)
(***************************************************************************)
\* who holds the five territories
AttackOwners ==
  { <<1, 2, 3, None, None>>,
    <<1, 2, 3, 1, None>>,
    <<2, 1, 1, 3, None>> }

AttackGarrisons == {0, 40, 360, 1000}
AttackPopulations == {0, 1, StartPopulation}
AttackRatios == {0, 60, 100}
DefenderPopulations == {30, StartPopulation}
AttackBuildings == {NoBuilding, "DefensePost"}

\* a world some ticks into a game: the counts and the alive flags are those
\* update_territory_counts left
world(owners, garrison, building, population, troop_ratio, attack_ratio, defenders) ==
  [territories |->
     [t \in TerritoryIds |->
        [owner |-> owners[t],
         terrain |-> (CHOOSE layout \in TerrainLayouts : TRUE)[t],
         building |-> building,
         troops |-> garrison]],
   players |->
     [p \in PlayerIds |->
        [generate_player(p, IF p = HumanPlayer THEN NoPersonality ELSE "Balanced",
                         IF p = HumanPlayer THEN population ELSE defenders)
           EXCEPT !.troop_ratio = IF p = HumanPlayer THEN troop_ratio ELSE @,
                  !.attack_ratio = IF p = HumanPlayer THEN attack_ratio ELSE @,
                  !.territories_controlled =
                     Cardinality({t \in TerritoryIds : owners[t] = p}),
                  !.is_alive = \E t \in TerritoryIds : owners[t] = p]],
   tick |-> 1,
   game_speed |-> 10,
   is_paused |-> FALSE,
   game_time_seconds |-> 0]

AttackWorlds ==
  {world(owners, garrison, building, population, troop_ratio, attack_ratio, defenders) :
     owners \in AttackOwners, garrison \in AttackGarrisons,
     building \in AttackBuildings, population \in AttackPopulations,
     troop_ratio \in AttackRatios, attack_ratio \in AttackRatios,
     defenders \in DefenderPopulations}

InitAttack ==
  /\ state \in AttackWorlds
  /\ Idle(0, MaxAttacks)

NextAttack ==
  \E from \in TerritoryIds \cup {UnknownTerritory},
     to \in TerritoryIds \cup {UnknownTerritory} : Attack(from, to)

SpecAttack == InitAttack /\ [][NextAttack]_vars

(***************************************************************************)
(* calculate_combat on its own: the troops of the two sides are drawn from *)
(* small numbers and the spec's examples, the defending territory from the *)
(* four terrains, with every structure.                                    *)
(***************************************************************************)
CombatTroops == (0..MaxTroops) \cup {30, 40, 100}

CombatWorlds ==
  {world(<<1, 2, 3, None, None>>, 0, building, StartPopulation, 50, 20, StartPopulation) :
     building \in {NoBuilding} \cup BuildingType}

\* GameEngine::calculate_combat as execute_attack calls it (the committed
\* force is at least 1 there)
CalculateCombat(attacker_troops, defender_troops, defender_territory) ==
  /\ CommandEnabled
  /\ LET combat == calculate_combat(state, attacker_troops, defender_troops,
                                    defender_territory)
     IN last' = Op("calculate_combat", TRUE, "", None, NoBuilding, 0,
                   [NoResult EXCEPT !.to_territory = defender_territory,
                                    !.attacker_troops_committed = attacker_troops,
                                    !.defender_troops = defender_troops,
                                    !.attacker_losses = combat.attacker_losses,
                                    !.defender_losses = combat.defender_losses,
                                    !.territory_conquered = combat.territory_conquered])
  /\ UNCHANGED <<state, outbox>>

InitCombat ==
  /\ state \in CombatWorlds
  /\ Idle(0, MaxAttacks)

NextCombat ==
  \E attacker_troops \in CombatTroops \ {0}, defender_troops \in CombatTroops,
     defender_territory \in TerritoryIds :
    CalculateCombat(attacker_troops, defender_troops, defender_territory)

SpecCombat == InitCombat /\ [][NextCombat]_vars

(***************************************************************************)
(* check_game_over on its own, at the end of an iteration of the periodic  *)
(* task.  The territory counts and the gold are those of a game on the 75  *)
(* territories of main.rs; the five territories here carry who is alive.   *)
(***************************************************************************)
ScoreCounts == 0..MaxCounts
ScoreGold == {0, 9, 250, 505}

score_world(alive, count, gold) ==
  LET w == world([t \in TerritoryIds |-> IF t \in alive THEN t ELSE None],
                 0, NoBuilding, StartPopulation, 50, 20, StartPopulation)
  IN [w EXCEPT !.players =
        [p \in PlayerIds |->
           [w.players[p] EXCEPT
              !.territories_controlled = IF p \in alive THEN count + (p - 1) ELSE 0,
              !.gold = gold + 7 * (p - 1)]]]

ScoreWorlds ==
  {score_world(alive, count, gold) :
     alive \in (SUBSET PlayerIds) \ {{}}, count \in ScoreCounts \ {0},
     gold \in ScoreGold}

InitScore ==
  /\ state \in ScoreWorlds
  /\ engine_lock = {WriteGuard(TickTask)}
  /\ clients_lock = {}
  /\ handlers = [conn \in Connections |-> IF conn = 1 THEN Receiving ELSE Closed]
  /\ clients = <<[conn |-> 1, player_id |-> HumanPlayer]>>
  /\ outbox = NoMessages
  /\ loop_pc = "tick_all"
  /\ ai_players = <<>>
  /\ stats = NoStats
  /\ sent_game_over = 0
  /\ last_snapshot = -1
  /\ cmds_left = 0
  /\ ticks_left = 0
  /\ last = Op("execute_ai_turn", FALSE, "", None, NoBuilding, player_count, NoResult)

NextScore ==
  \/ LoopCheckGameOver
  \/ LoopBroadcastGameOver
  \/ LoopSnapshot

SpecScore == InitScore /\ [][NextScore]_vars

(***************************************************************************)
(* A game in which the human sends attack orders while the periodic task   *)
(* runs: the runs in which participants are eliminated.                    *)
(***************************************************************************)
\* the worlds of the games that have run, after the human has set both
\* ratios to 1
CampaignWorlds ==
  {set_attack_ratio(set_troop_ratio(w, HumanPlayer, 100), HumanPlayer, 100) :
     w \in {v \in Worlds : v.players[HumanPlayer].population > StartPopulation}}

\* the territory the human starts on; every other territory is its neighbour
HomeTerritory == HumanPlayer

InitCampaign ==
  /\ state \in CampaignWorlds
  /\ Idle(MaxRounds, MaxOrders)

NextCampaign ==
  \/ LoopTick
  \/ LoopTickAi
  \/ LoopAiTurn
  \/ LoopCheckGameOver
  \/ LoopBroadcastGameOver
  \/ LoopSnapshot
  \/ \E to \in TerritoryIds : Attack(HomeTerritory, to)

SpecCampaign == InitCampaign /\ [][NextCampaign]_vars

(***************************************************************************)
(* Builds on worlds in the middle of a game: some territories carry a      *)
(* structure already, the participants' gold lies around the three costs,  *)
(* the human builds and attacks (so that territories change hands between  *)
(* builds) and the AI participants run their try_build.                    *)
(***************************************************************************)
BuildOwners ==
  { <<1, 2, 3, None, None>>,
    <<1, 1, 2, 3, None>> }

BuiltSets == { {}, {1}, {3}, {1, 2, 4} }
BuildGold == {0, 499, 500, 750, 999, 1000, 1500}

build_world(owners, built, gold) ==
  LET w == world(owners, 40, NoBuilding, StartPopulation, 100, 100, StartPopulation)
  IN [w EXCEPT
        !.territories =
           [t \in TerritoryIds |->
              [w.territories[t] EXCEPT
                 !.building = IF t \in built THEN "GoldMine" ELSE NoBuilding]],
        !.players = [p \in PlayerIds |-> [w.players[p] EXCEPT !.gold = gold]]]

BuildWorlds ==
  {build_world(owners, built, gold) :
     owners \in BuildOwners, built \in BuiltSets, gold \in BuildGold}

\* AIEngine::try_build of one AI participant, as execute_ai_turn calls it
TryBuild(player_id) ==
  /\ CommandEnabled
  /\ state.players[player_id].is_ai
  /\ state.players[player_id].is_alive
  /\ \E built \in try_build(state, player_id, state.players[player_id].ai_personality) :
       /\ state' = built
       /\ last' = Op("try_build", built # state, "", None, NoBuilding, player_id, NoResult)
  /\ outbox' = NoMessages

InitBuild ==
  /\ state \in BuildWorlds
  /\ Idle(0, MaxBuilds)

NextBuild ==
  \/ \E territory \in TerritoryIds \cup {UnknownTerritory},
        building_type \in BuildingType : BuildStructure(territory, building_type)
  \/ \E to \in TerritoryIds : Attack(HomeTerritory, to)
  \/ \E player_id \in PlayerIds : TryBuild(player_id)

SpecBuild == InitBuild /\ [][NextBuild]_vars

(***************************************************************************)
(* GameEngine::tick alone, applied again and again to a world at each of   *)
(* the speeds the setter can store, paused or running.                     *)
(***************************************************************************)
ClockSpeeds == {5, 10, 20, 40}

ClockWorlds ==
  {[w EXCEPT !.game_speed = speed, !.is_paused = paused] :
     w \in Worlds, speed \in ClockSpeeds, paused \in BOOLEAN}

\* engine.tick()
Tick ==
  /\ ticks_left > 0
  /\ ticks_left' = ticks_left - 1
  /\ state' = tick(state)
  /\ last' = Op("tick", TRUE, "", None, NoBuilding, 0, NoResult)
  /\ UNCHANGED <<engine_lock, clients_lock, handlers, clients, outbox, loop_pc, ai_players,
                 stats, sent_game_over, last_snapshot, cmds_left>>

InitClock ==
  /\ state \in ClockWorlds
  /\ Idle(MaxClockTicks, 0)

NextClock == Tick

SpecClock == InitClock /\ [][NextClock]_vars

(***************************************************************************)
(* The periodic task over enough iterations for the tick counter to pass   *)
(* 5, with a client that pauses and resumes the game.                      *)
(***************************************************************************)
\* the end of a game: the human holds one territory with a small population
\* and one AI participant holds the rest
EndgameWorlds == {world(<<2, 1, 2, 2, 2>>, 40, NoBuilding, 30, 50, 50, StartMaxPopulation - 1)}

InitLoop ==
  /\ state \in Worlds \cup EndgameWorlds
  /\ Idle(MaxLoopTicks, MaxCmds)

NextLoop ==
  \/ LoopTick
  \/ LoopTickAi
  \/ LoopAiTurn
  \/ LoopCheckGameOver
  \/ LoopBroadcastGameOver
  \/ LoopSnapshot
  \/ PauseGame
  \/ ResumeGame

SpecLoop == InitLoop /\ [][NextLoop]_vars

(***************************************************************************)
(* websocket/handler.rs: connections that open and close while their       *)
(* clients attack and build.                                               *)
(***************************************************************************)
\* handle_socket up to the start of the recv task: the connection is
\* registered under the first participant that is not an AI; the initial
\* state is written to the socket itself, not to the channel
Connect(conn) ==
  /\ handlers[conn].pc = "closed"
  /\ CanRead
  /\ CanWriteClients
  /\ handlers' = [handlers EXCEPT ![conn] = Receiving]
  /\ clients' = Append(clients, [conn |-> conn, player_id |-> HumanPlayer])
  /\ outbox' = NoMessages
  /\ last' = [Op("connect", TRUE, "", None, NoBuilding, 0, NoResult) EXCEPT !.conn = conn]
  /\ UNCHANGED <<state, engine_lock, clients_lock, loop_pc, ai_players, stats,
                 sent_game_over, last_snapshot, cmds_left, ticks_left>>

\* the recv task ended: remove_client(player_id) keeps the sessions of the
\* other participants only
Disconnect(conn) ==
  /\ handlers[conn].pc = "recv"
  /\ CanWriteClients
  /\ handlers' = [handlers EXCEPT ![conn] = Closed]
  /\ clients' = SelectSeq(clients, LAMBDA c : c.player_id # HumanPlayer)
  /\ outbox' = NoMessages
  /\ last' = [Op("disconnect", TRUE, "", None, NoBuilding, 0, NoResult) EXCEPT !.conn = conn]
  /\ UNCHANGED <<state, engine_lock, clients_lock, loop_pc, ai_players, stats,
                 sent_game_over, last_snapshot, cmds_left, ticks_left>>

InitClients ==
  /\ state \in Worlds
  /\ engine_lock = {}
  /\ clients_lock = {}
  /\ handlers = [conn \in Connections |-> Closed]
  /\ clients = <<>>
  /\ outbox = NoMessages
  /\ loop_pc = "interval"
  /\ ai_players = <<>>
  /\ stats = NoStats
  /\ sent_game_over = 0
  /\ last_snapshot = -1
  /\ cmds_left = MaxCmds
  /\ ticks_left = 0
  /\ last = Op("init", TRUE, "", None, NoBuilding, 0, NoResult)

NextClients ==
  \/ \E conn \in Connections : Connect(conn)
  \/ \E conn \in Connections : Disconnect(conn)
  \/ \E to \in TerritoryIds : Attack(HomeTerritory, to)
  \/ \E territory \in TerritoryIds \cup {UnknownTerritory},
        building_type \in BuildingType : BuildStructure(territory, building_type)

SpecClients == InitClients /\ [][NextClients]_vars

(***************************************************************************)
(* The guards on the engine, step by step: a handler takes its guard,      *)
(* validates, mutates and drops the guard in steps of its own, so that the *)
(* periodic task, the other handlers and the readers can try to get in     *)
(* between.                                                                *)
(***************************************************************************)
\* handle_message: the first line of the arm, engine.write().await, or
\* engine.read().await for GetGameState
Lock(conn, message) ==
  /\ handlers[conn].pc = "recv"
  /\ cmds_left > 0
  /\ cmds_left' = cmds_left - 1
  /\ IF message.type = "GetGameState"
     THEN CanRead /\ engine_lock' = engine_lock \cup {ReadGuard(conn)}
     ELSE CanWrite /\ engine_lock' = engine_lock \cup {WriteGuard(conn)}
  /\ handlers' = [handlers EXCEPT ![conn] =
                    [Receiving EXCEPT !.pc = "locked", !.message = message,
                                      !.order = cmds_left]]
  /\ outbox' = NoMessages
  /\ last' = [Op("lock", TRUE, "", None, NoBuilding, 0, NoResult) EXCEPT !.conn = conn]
  /\ UNCHANGED <<state, clients_lock, clients, loop_pc, ai_players, stats, sent_game_over,
                 last_snapshot, ticks_left>>

\* execute_attack up to the last validation
Validate(conn) ==
  /\ handlers[conn].pc = "locked"
  /\ handlers[conn].message.type = "Attack"
  /\ handlers' = [handlers EXCEPT
                    ![conn].pc = "checked",
                    ![conn].verdict =
                       attack_validation(state, HumanPlayer, handlers[conn].message.from,
                                         handlers[conn].message.to)]
  /\ outbox' = NoMessages
  /\ last' = [Op("validate", TRUE, "", None, NoBuilding, 0, NoResult) EXCEPT !.conn = conn]
  /\ UNCHANGED <<state, engine_lock, clients_lock, clients, loop_pc, ai_players, stats,
                 sent_game_over, last_snapshot, cmds_left, ticks_left>>

\* execute_attack from the validation on, and the rest of the Attack arm in
\* one step
Apply(conn) ==
  /\ handlers[conn].pc = "checked"
  /\ LET message == handlers[conn].message
         r == IF handlers[conn].verdict # ""
              THEN AttackErr(state, handlers[conn].verdict)
              ELSE attack_resolution(state, HumanPlayer, message.from, message.to)
     IN /\ state' = r.state
        /\ outbox' = attack_events(r)
        /\ last' = [Op("Attack", r.ok, r.err, None, NoBuilding, 0, r.result)
                      EXCEPT !.conn = conn]
  /\ engine_lock' = engine_lock \ {WriteGuard(conn)}
  /\ handlers' = [handlers EXCEPT ![conn] = Receiving]
  /\ UNCHANGED <<clients_lock, clients, loop_pc, ai_players, stats, sent_game_over,
                 last_snapshot, cmds_left, ticks_left>>

\* the GetGameState arm under its read guard, in one step
Answer(conn) ==
  /\ handlers[conn].pc = "locked"
  /\ handlers[conn].message.type = "GetGameState"
  /\ outbox' = send_to_client(NoMessages, HumanPlayer,
                              ServerMessage("GameStateUpdate", state))
  /\ engine_lock' = engine_lock \ {ReadGuard(conn)}
  /\ handlers' = [handlers EXCEPT ![conn] = Receiving]
  /\ last' = [Op("GetGameState", TRUE, "", None, NoBuilding, 0, NoResult)
                EXCEPT !.conn = conn]
  /\ UNCHANGED <<state, clients_lock, clients, loop_pc, ai_players, stats, sent_game_over,
                 last_snapshot, cmds_left, ticks_left>>

InitLock ==
  /\ state \in CampaignWorlds
  /\ Idle(MaxLockTicks, MaxLockCmds)

NextLock ==
  \/ LoopTick
  \/ LoopTickAi
  \/ LoopAiTurn
  \/ LoopCheckGameOver
  \/ LoopBroadcastGameOver
  \/ LoopSnapshot
  \/ \E conn \in Connections : Connect(conn)
  \/ \E conn \in Connections, to \in TerritoryIds :
       Lock(conn, [type |-> "Attack", from |-> HomeTerritory, to |-> to])
  \/ \E conn \in Connections :
       Lock(conn, [type |-> "GetGameState", from |-> None, to |-> None])
  \/ \E conn \in Connections : Validate(conn)
  \/ \E conn \in Connections : Apply(conn)
  \/ \E conn \in Connections : Answer(conn)

SpecLock == InitLock /\ [][NextLock]_vars

(***************************************************************************)
(* The two locks of GameSession, step by step: what a handler sends goes   *)
(* out in a step of its own, after the guard on the engine where the code  *)
(* drops it first, and a connection registers in the steps of              *)
(* handle_socket.                                                          *)
(***************************************************************************)
\* execute_attack from the validation on, and the match on its result: Ok
\* drops the guard before anything is sent, Err keeps it until the arm ends
ExecuteAttack(conn) ==
  /\ handlers[conn].pc = "checked"
  /\ LET message == handlers[conn].message
         r == IF handlers[conn].verdict # ""
              THEN AttackErr(state, handlers[conn].verdict)
              ELSE attack_resolution(state, HumanPlayer, message.from, message.to)
     IN /\ state' = r.state
        /\ engine_lock' = IF r.ok THEN engine_lock \ {WriteGuard(conn)} ELSE engine_lock
        /\ handlers' = [handlers EXCEPT ![conn].pc = "send",
                                        ![conn].result = [ok |-> r.ok, err |-> r.err,
                                                          result |-> r.result]]
        /\ last' = [Op("Attack", r.ok, r.err, None, NoBuilding, 0, r.result)
                      EXCEPT !.conn = conn]
  /\ outbox' = NoMessages
  /\ UNCHANGED <<clients_lock, clients, loop_pc, ai_players, stats, sent_game_over,
                 last_snapshot, cmds_left, ticks_left>>

\* broadcast and send_to_client: the read guard on the client list, the
\* tx.send calls under it, and the end of the arm, where the guards still
\* held go; the handler of GetGameState comes here straight from its read
\* guard on the engine (AttackResult and TerritoryConquered are two
\* broadcasts in the code; they are sent in one step here)
Send(conn) ==
  /\ \/ handlers[conn].pc = "send"
     \/ handlers[conn].pc = "locked" /\ handlers[conn].message.type = "GetGameState"
  /\ CanReadClients
  /\ outbox' = IF handlers[conn].message.type = "GetGameState"
                THEN send_to_client(NoMessages, HumanPlayer,
                                    ServerMessage("GameStateUpdate", state))
                ELSE attack_events(handlers[conn].result)
  /\ engine_lock' = engine_lock \ {ReadGuard(conn), WriteGuard(conn)}
  /\ handlers' = [handlers EXCEPT ![conn] = Receiving]
  /\ last' = [Op(IF handlers[conn].message.type = "GetGameState"
                 THEN "GetGameState" ELSE "send",
                 TRUE, "", None, NoBuilding, 0, handlers[conn].result.result)
                EXCEPT !.conn = conn]
  /\ UNCHANGED <<state, clients_lock, clients, loop_pc, ai_players, stats, sent_game_over,
                 last_snapshot, cmds_left, ticks_left>>

\* handle_socket: the first participant that is not an AI is read under a
\* read guard that goes at once, then add_client asks for the write guard on
\* the client list
AddClient(conn) ==
  /\ handlers[conn].pc = "closed"
  /\ CanRead
  /\ CanWriteClients
  /\ clients_lock' = clients_lock \cup {WriteGuard(conn)}
  /\ handlers' = [handlers EXCEPT ![conn].pc = "add_client"]
  /\ outbox' = NoMessages
  /\ last' = [Op("add_client", TRUE, "", None, NoBuilding, 0, NoResult)
                EXCEPT !.conn = conn]
  /\ UNCHANGED <<state, engine_lock, clients, loop_pc, ai_players, stats, sent_game_over,
                 last_snapshot, cmds_left, ticks_left>>

\* an add_client that reads the engine while it holds the guard on the
\* client list
PushClient_under_engine_read(conn) ==
  /\ handlers[conn].pc = "add_client"
  /\ CanRead
  /\ clients' = Append(clients, [conn |-> conn, player_id |-> HumanPlayer])
  /\ clients_lock' = clients_lock \ {WriteGuard(conn)}
  /\ handlers' = [handlers EXCEPT ![conn].pc = "initial_state"]
  /\ outbox' = NoMessages
  /\ last' = [Op("push_client", TRUE, "", None, NoBuilding, 0, NoResult)
                EXCEPT !.conn = conn]
  /\ UNCHANGED <<state, engine_lock, loop_pc, ai_players, stats, sent_game_over,
                 last_snapshot, cmds_left, ticks_left>>

\* add_client: the push, and the guard goes when add_client returns
PushClient(conn) ==
  /\ handlers[conn].pc = "add_client"
  /\ clients' = Append(clients, [conn |-> conn, player_id |-> HumanPlayer])
  /\ clients_lock' = clients_lock \ {WriteGuard(conn)}
  /\ handlers' = [handlers EXCEPT ![conn].pc = "initial_state"]
  /\ outbox' = NoMessages
  /\ last' = [Op("push_client", TRUE, "", None, NoBuilding, 0, NoResult)
                EXCEPT !.conn = conn]
  /\ UNCHANGED <<state, engine_lock, loop_pc, ai_players, stats, sent_game_over,
                 last_snapshot, cmds_left, ticks_left>>

\* handle_socket: the initial state, read under a read guard on the engine
\* and written to the socket itself; the recv task starts
InitialState(conn) ==
  /\ handlers[conn].pc = "initial_state"
  /\ CanRead
  /\ handlers' = [handlers EXCEPT ![conn] = Receiving]
  /\ outbox' = NoMessages
  /\ last' = [Op("connect", TRUE, "", None, NoBuilding, 0, NoResult) EXCEPT !.conn = conn]
  /\ UNCHANGED <<state, engine_lock, clients_lock, clients, loop_pc, ai_players, stats, sent_game_over,
                 last_snapshot, cmds_left, ticks_left>>

\* the client closes the socket, which is one of the inputs the run bounds:
\* the recv task ends and remove_client(player_id) takes the write guard on
\* the client list, drops the sessions of the participant and lets the
\* guard go
RemoveClient(conn) ==
  /\ handlers[conn].pc = "recv"
  /\ cmds_left > 0
  /\ cmds_left' = cmds_left - 1
  /\ CanWriteClients
  /\ handlers' = [handlers EXCEPT ![conn] = Closed]
  /\ clients' = SelectSeq(clients, LAMBDA c : c.player_id # HumanPlayer)
  /\ outbox' = NoMessages
  /\ last' = [Op("disconnect", TRUE, "", None, NoBuilding, 0, NoResult) EXCEPT !.conn = conn]
  /\ UNCHANGED <<state, engine_lock, clients_lock, loop_pc, ai_players, stats,
                 sent_game_over, last_snapshot, ticks_left>>

\* what a connection's task does next, once it has asked for a guard, and
\* what the periodic task does next inside its exclusive section
HandlerStep(conn) ==
  \/ Validate(conn)
  \/ ExecuteAttack(conn)
  \/ Send(conn)
  \/ PushClient(conn)

TickStep ==
  \/ LoopTickAi
  \/ LoopAiTurn
  \/ LoopCheckGameOver

\* an attack on the own territory, which fails validation, and attacks on
\* two neighbours
GuardTargets == {HomeTerritory, HomeTerritory + 1, HomeTerritory + 2}

\* a game the human has just won with an attack: the next iteration of the
\* periodic task finds it over
WonWorlds ==
  {world([t \in TerritoryIds |-> HumanPlayer], 40, NoBuilding, 30, 50, 50, StartPopulation)}

\* the commands and the iterations of the periodic task share one budget
InitGuards ==
  /\ state \in CampaignWorlds \cup WonWorlds
  /\ \E commands \in 0..MaxGuardSteps : Idle(MaxGuardSteps - commands, commands)

NextGuards ==
  \/ LoopTick
  \/ LoopTickAi
  \/ LoopAiTurn
  \/ LoopCheckGameOver
  \/ LoopBroadcastGameOver
  \/ LoopSnapshot
  \/ \E conn \in Connections : AddClient(conn)
  \/ \E conn \in Connections : PushClient(conn)
  \/ \E conn \in Connections : InitialState(conn)
  \/ \E conn \in Connections : RemoveClient(conn)
  \/ \E conn \in Connections, to \in GuardTargets :
       Lock(conn, [type |-> "Attack", from |-> HomeTerritory, to |-> to])
  \/ \E conn \in Connections :
       Lock(conn, [type |-> "GetGameState", from |-> None, to |-> None])
  \/ \E conn \in Connections : Validate(conn)
  \/ \E conn \in Connections : ExecuteAttack(conn)
  \/ \E conn \in Connections : Send(conn)

SpecGuards == InitGuards /\ [][NextGuards]_vars

(***************************************************************************)
(* The AI participants' turns: the periodic task in worlds in the middle   *)
(* of a game, running or paused, with every pair of personalities, with    *)
(* populations that give the participants different garrisons, and with a  *)
(* participant whose population is too small to commit any troops.         *)
(***************************************************************************)
\* a world the periodic task has left: the ratios are those update_ratios
\* stored in the AI participants' last turn, the garrisons those of tick_ai
ai_world(owners, personality, population, is_paused) ==
  LET w == world(owners, 50, NoBuilding, population[HumanPlayer], 50, 20, 0)
      players ==
        [p \in PlayerIds |->
           IF p = HumanPlayer THEN w.players[p]
           ELSE [generate_player(p, personality[p], population[p])
                   EXCEPT !.territories_controlled = w.players[p].territories_controlled,
                          !.is_alive = w.players[p].is_alive]]
      v == [w EXCEPT !.players = players, !.is_paused = is_paused]
      RECURSIVE RatiosUpTo(_)
      RatiosUpTo(n) ==
        IF n = 0 THEN v
        ELSE IF v.players[n].is_ai /\ v.players[n].is_alive
          THEN update_ratios(RatiosUpTo(n - 1), n, personality[n])
          ELSE RatiosUpTo(n - 1)
  IN distribute_all(RatiosUpTo(player_count))

AiWorlds ==
  LET AiOwners == { <<1, 2, 3, None, None>>,
                    <<1, 2, 3, 3, 1>>,
                    <<2, 1, 1, 3, None>>,
                    <<1, 2, 3, 2, 2>> }
      AiPopulations == { <<1000, 8, 1000>>,
                         <<200, 1000, 40>>,
                         <<30, 2000, 700>>,
                         <<1000, 1000, 1000>> }
  IN {ai_world(owners, <<NoPersonality, second, third>>, population, is_paused) :
        owners \in AiOwners, second \in AIPersonality, third \in AIPersonality,
        population \in AiPopulations, is_paused \in BOOLEAN}

InitAi ==
  /\ state \in AiWorlds
  /\ Idle(MaxRounds, 0)

NextAi ==
  \/ LoopTick
  \/ LoopTickAi
  \/ LoopAiTurn
  \/ LoopCheckGameOver
  \/ LoopSnapshot

SpecAi == InitAi /\ [][NextAi]_vars

(***************************************************************************)
(* game/map_gen.rs: MapGenerator::generate for small maps.  Positions are  *)
(* in units of 1/(100 * grid_size), so that the jitter of at most 0.05 is  *)
(* grid_size * (hundredths); distances are compared by their squares.      *)
(***************************************************************************)
\* MapGenerator::generate_territories: the positions, jitter[t] being the pair
\* of random offsets in hundredths, clamped to the unit square
generate_territories(count, jitter) ==
  LET grid_size == CHOOSE g \in 1..count : g * g >= count /\ (g - 1) * (g - 1) < count
      clamped(x) == IF x < 0 THEN 0 ELSE min(x, 100 * grid_size)
  IN [t \in 1..count |->
        <<clamped(100 * ((t - 1) % grid_size) + grid_size * jitter[t][1]),
          clamped(100 * ((t - 1) \div grid_size) + grid_size * jitter[t][2])>>]

\* MapGenerator::connect_territories: the neighbour lists; neighbor_count[t] is
\* the number in 3..6 the territory draws.  The sort is stable, so equal
\* distances keep the order of the indices.
connect_territories(position, neighbor_count) ==
  LET n == Len(position)
      distance(i, j) ==
        (position[i][1] - position[j][1]) * (position[i][1] - position[j][1])
          + (position[i][2] - position[j][2]) * (position[i][2] - position[j][2])
      before(i, a, b) ==
        distance(i, a) < distance(i, b) \/ (distance(i, a) = distance(i, b) /\ a < b)
      sorted(i) ==
        [k \in 1..(n - 1) |->
           CHOOSE j \in (1..n) \ {i} :
             Cardinality({a \in (1..n) \ {i} : before(i, a, j)}) = k - 1]
      nearest == [i \in 1..n |-> SubSeq(sorted(i), 1, min(neighbor_count[i], n - 1))]
      \* the second loop's step for territory i on the lists of the steps before
      push(lists, i) ==
        [t \in 1..n |->
           IF SeqContains(lists[i], t) /\ ~SeqContains(lists[t], i)
           THEN Append(lists[t], i) ELSE lists[t]] \o <<>>
      RECURSIVE Bidirectional(_)
      Bidirectional(i) ==
        IF i = 0 THEN nearest \o <<>>
        ELSE CHOOSE pushed \in {push(lists, i) : lists \in {Bidirectional(i - 1)}} : TRUE
  IN Bidirectional(n)

\* the offsets rng.gen_range(0..N) can return with N not bounded by step
start_offsets_not_below_step(step) == 0..4

\* assign_starting_territories: the offsets rng.gen_range(0..step.min(5)) can return
start_offsets(step) == 0..(min(step, 5) - 1)

\* MapGenerator::assign_starting_territories: owner and garrison of every
\* territory; offset[p] is the offset participant p draws, neutral[t] the
\* garrison a neutral territory draws
assign_starting_territories(count, players, offset, neutral) ==
  LET step == count \div players
      start_idx(p) == ((p - 1) * step + offset[p]) % count
      starters(t) == {p \in 1..players : start_idx(p) = t - 1}
      \* a later participant overwrites an earlier one
      last_starter(t) == CHOOSE p \in starters(t) : \A q \in starters(t) : q <= p
  IN [t \in 1..count |->
        IF starters(t) = {} THEN [owner |-> None, troops |-> neutral[t]]
        ELSE [owner |-> last_starter(t), troops |-> StartTroops]]

\* MapGenerator::generate on the generator MapGenerator::new built
Generate ==
  /\ last.op = "init"
  /\ LET count == state.territory_count
         players == state.player_count
         Jitters == {[t \in 1..count |-> <<0, 0>>],
                     [t \in 1..count |-> <<IF t % 2 = 0 THEN -5 ELSE 4,
                                           IF t % 3 = 0 THEN 4 ELSE -5>>]}
         Counts == {[t \in 1..count |-> 3],
                    [t \in 1..count |-> 6],
                    [t \in 1..count |-> 3 + (t % 4)]}
         Neutrals == {[t \in 1..count |-> 50], [t \in 1..count |-> 50 + ((99 * t) % 100)]}
     IN \E jitter \in Jitters, neighbor_count \in Counts :
        \E position \in {generate_territories(count, jitter) \o <<>>} :
        \E lists \in {connect_territories(position, neighbor_count)} :
        \E neutral \in Neutrals, personality \in {"Turtle", "Rusher"},
           offset \in [1..players -> start_offsets(count \div players)] :
        \E starts \in {assign_starting_territories(count, players, offset, neutral) \o <<>>} :
             state' =
               [territories |->
                  [t \in 1..count |->
                     [owner |-> starts[t].owner,
                      terrain |-> "Plains",
                      building |-> NoBuilding,
                      troops |-> starts[t].troops,
                      neighbors |-> lists[t],
                      position |-> position[t]]],
                players |->
                  [p \in 1..players |->
                     generate_player(p, IF p = HumanPlayer THEN NoPersonality
                                        ELSE personality, StartPopulation)],
                tick |-> 0,
                game_speed |-> 10,
                is_paused |-> FALSE,
                game_time_seconds |-> 0]
  /\ last' = Op("generate", TRUE, "", None, NoBuilding, 0, NoResult)
  /\ UNCHANGED <<engine_lock, clients_lock, handlers, clients, outbox, loop_pc, ai_players,
                 stats, sent_game_over, last_snapshot, cmds_left, ticks_left>>

\* MapGenerator::new(territory_count, player_count)
InitMap ==
  /\ state \in {[territory_count |-> size[1], player_count |-> size[2]] :
                  size \in {<<4, 2>>, <<4, 4>>, <<5, 3>>, <<9, 3>>, <<12, 2>>}}
  /\ Idle(0, 0)

NextMap == Generate

SpecMap == InitMap /\ [][NextMap]_vars

TypeOK ==
  /\ state.tick \in 0..MaxTick
  /\ loop_pc \in {"interval", "tick_ai", "tick_all", "broadcast_game_over",
                  "snapshot", "done"}

(***************************************************************************)
(* Properties.                                                             *)
(***************************************************************************)
Alive(s) == {p \in PlayerIds : s.players[p].is_alive}

\* C1: in every reachable state each territory's owner is absent or the
\* identifier of a participant whose alive flag is true.
C1_OwnerAbsentOrAlive ==
  \A t \in TerritoryIds :
    \/ state.territories[t].owner = None
    \/ /\ state.territories[t].owner \in PlayerIds
       /\ state.players[state.territories[t].owner].is_alive

\* a starting territory has changed hands and a participant has been eliminated
C1_Witness ==
  /\ \E t \in 1..player_count : state.territories[t].owner # t
  /\ \E p \in PlayerIds : ~state.players[p].is_alive

\* the value a ratio setter has to store for a requested value
ClampedRatio(requested) ==
  IF requested < 0 THEN 0 ELSE IF requested > 100 THEN 100 ELSE requested

\* C2: every participant's troop_ratio and attack_ratio lie in [0,1] and its
\* population does not exceed max_population, after every command and every
\* step of the periodic task; a ratio setter stores the requested value
\* clamped to [0,1].
C2_RatiosAndPopulationBounded ==
  /\ \A p \in PlayerIds :
       /\ 0 <= state.players[p].troop_ratio /\ state.players[p].troop_ratio <= 100
       /\ 0 <= state.players[p].attack_ratio /\ state.players[p].attack_ratio <= 100
       /\ state.players[p].population <= state.players[p].max_population
  /\ last.op = "SetTroopRatio" =>
       state.players[HumanPlayer].troop_ratio = ClampedRatio(last.requested)
  /\ last.op = "SetAttackRatio" =>
       state.players[HumanPlayer].attack_ratio = ClampedRatio(last.requested)

\* a setter was asked for a ratio above 1 and stored 1, while a participant
\* stands at its population cap
C2_Witness ==
  /\ last.op \in {"SetTroopRatio", "SetAttackRatio"}
  /\ last.requested > 100
  /\ \E p \in PlayerIds : state.players[p].population = state.players[p].max_population

\* the preconditions of an attack, read off the state before it
OwnsFrom(from) ==
  from \in TerritoryIds /\ state.territories[from].owner = HumanPlayer

Adjacent(from, to) ==
  from \in TerritoryIds /\ SeqContains(neighbors[from], to)

OwnsTo(to) ==
  to \in TerritoryIds /\ state.territories[to].owner = HumanPlayer

\* the force an attack of the human commits: floor(floor(population *
\* troop_ratio) * attack_ratio)
CommittedForce ==
  (((state.players[HumanPlayer].population * state.players[HumanPlayer].troop_ratio)
      \div 100) * state.players[HumanPlayer].attack_ratio) \div 100

\* C3: an attack whose attacker does not own the source territory, whose
\* territories are not adjacent, or whose attacker already owns the target
\* returns an error and leaves the game state unchanged.
C3_InvalidAttackRejected ==
  [][\A from \in TerritoryIds \cup {UnknownTerritory},
        to \in TerritoryIds \cup {UnknownTerritory} :
       (Attack(from, to) /\ (~OwnsFrom(from) \/ ~Adjacent(from, to) \/ OwnsTo(to)))
         => (~last'.ok /\ last'.err # "" /\ state' = state)]_vars

\* the human attacked from an own territory a territory that is no
\* neighbour of it, with troops to commit, and was refused
C3_Witness ==
  /\ last.op = "Attack"
  /\ last.err = "Territories are not neighbors"
  /\ CommittedForce > 0

\* C4: an attack whose committed force floor(troops * attack_ratio) is zero
\* fails and changes nothing.
C4_ZeroForceAttackFails ==
  [][\A from \in TerritoryIds \cup {UnknownTerritory},
        to \in TerritoryIds \cup {UnknownTerritory} :
       (Attack(from, to) /\ CommittedForce = 0)
         => (~last'.ok /\ last'.err # "" /\ state' = state)]_vars

\* an attack that passed the validation was refused for want of troops
C4_Witness ==
  /\ last.op = "Attack"
  /\ last.err = "No troops available to attack"
  /\ CommittedForce = 0

\* C6: a successful attack has exactly these effects: the attacker's
\* population falls by attacker_losses and the defending owner's, if any, by
\* the final defender_losses, both stopping at 0; a conquered territory goes
\* to the attacker with a garrison of committed troops minus attacker_losses;
\* otherwise the territory's garrison falls by defender_losses, stopping at 0.
C6_SuccessfulAttackEffects ==
  [][\A from \in TerritoryIds, to \in TerritoryIds :
       (Attack(from, to) /\ last'.ok) =>
         LET r == last'.result
             defender == state.territories[to].owner
         IN /\ r.attacker_troops_committed = CommittedForce
            /\ r.defender_troops = state.territories[to].troops
            /\ \A p \in PlayerIds :
                 state'.players[p] =
                   [state.players[p] EXCEPT !.population =
                      IF p = HumanPlayer THEN saturating_sub(@, r.attacker_losses)
                      ELSE IF p = defender THEN saturating_sub(@, r.defender_losses)
                      ELSE @]
            /\ \A t \in TerritoryIds \ {to} :
                 state'.territories[t] = state.territories[t]
            /\ state'.territories[to] =
                 IF r.territory_conquered
                 THEN [state.territories[to] EXCEPT
                         !.owner = HumanPlayer,
                         !.troops = r.attacker_troops_committed - r.attacker_losses]
                 ELSE [state.territories[to] EXCEPT
                         !.troops = saturating_sub(r.defender_troops, r.defender_losses)]
            /\ [state' EXCEPT !.players = state.players,
                              !.territories = state.territories] = state]_vars

\* the human conquered a participant's territory at a loss, and the losses
\* of the defender exceeded the defender's population
C6_Witness ==
  /\ last.op = "Attack" /\ last.ok
  /\ last.result.territory_conquered
  /\ last.result.defender_id \in PlayerIds
  /\ last.result.attacker_losses > 0
  /\ state.players[last.result.defender_id].population = 0
  /\ state.territories[last.result.to_territory].troops > 0

\* C5: for committed attacker troops a >= 1, defender troops d >= 0, every
\* terrain and structure, calculate_combat equals the reference formula:
\* a > d gives attacker_losses floor(0.3 d) and base defender losses d;
\* a < d gives a and floor(0.5 a); a = d gives floor(0.7 a) and floor(0.7 d);
\* the final defender_losses are floor(base * terrain multiplier (Mountain
\* 0.7, else 1) * structure multiplier (Defense-Post 0.8, else 1)), and the
\* territory is conquered iff they are at least d.  (100, 40, Plains, none)
\* gives (12, 40, conquered); (30, 100, Mountain, none) gives (30, 10, not
\* conquered).
C5_CombatMatchesReference ==
  last.op = "calculate_combat" =>
    LET a == last.result.attacker_troops_committed
        d == last.result.defender_troops
        target == state.territories[last.result.to_territory]
        \* the multipliers as fractions num/den
        terrain_num == IF target.terrain = "Mountains" THEN 7 ELSE 10
        structure_num == IF target.building = "DefensePost" THEN 8 ELSE 10
        reference_attacker_losses ==
          IF a > d THEN (3 * d) \div 10 ELSE IF a < d THEN a ELSE (7 * a) \div 10
        reference_base ==
          IF a > d THEN d ELSE IF a < d THEN a \div 2 ELSE (7 * d) \div 10
        reference_final == (reference_base * terrain_num * structure_num) \div 100
    IN /\ last.result.attacker_losses = reference_attacker_losses
       /\ last.result.defender_losses = reference_final
       /\ last.result.territory_conquered <=> (reference_final >= d)
       /\ (a = 100 /\ d = 40 /\ target.terrain = "Plains" /\ target.building = NoBuilding)
            => /\ last.result.attacker_losses = 12
               /\ last.result.defender_losses = 40
               /\ last.result.territory_conquered
       /\ (a = 30 /\ d = 100 /\ target.terrain = "Mountains"
             /\ target.building = NoBuilding)
            => /\ last.result.attacker_losses = 30
               /\ last.result.defender_losses = 10
               /\ ~last.result.territory_conquered

\* the combat of 30 against 100 on a mountain without a structure
C5_Witness ==
  /\ last.op = "calculate_combat"
  /\ last.result.attacker_troops_committed = 30
  /\ last.result.defender_troops = 100
  /\ state.territories[last.result.to_territory].terrain = "Mountains"
  /\ state.territories[last.result.to_territory].building = NoBuilding
  /\ last.result.defender_losses = 10

\* C10: when check_game_over reports a winner, final_score is the sole alive
\* participant's territories_controlled * 100 + floor(gold / 10) (10
\* territories and 250 gold give 1025); it reports nothing when the number
\* of alive participants is not exactly 1.
C10_FinalScore ==
  last.op = "check_game_over" =>
    IF Cardinality(Alive(state)) = 1
    THEN \E p \in Alive(state) :
           /\ stats.some
           /\ stats.winner = p
           /\ stats.final_score =
                state.players[p].territories_controlled * 100
                  + state.players[p].gold \div 10
           /\ (state.players[p].territories_controlled = 10
                 /\ state.players[p].gold = 250) => stats.final_score = 1025
    ELSE ~stats.some

\* check_game_over reported the winner with 10 territories and 250 gold
C10_Witness ==
  /\ last.op = "check_game_over"
  /\ stats.some
  /\ state.players[stats.winner].territories_controlled = 10
  /\ state.players[stats.winner].gold = 250
  /\ stats.final_score = 1025

\* C7: a participant whose number of owned territories has reached 0 is
\* marked not alive by the next tick (a tick() of a game that is not paused;
\* tick() does nothing while the game is paused), and a participant whose
\* alive flag is false is not alive in any later state.
C7_EliminationIsFinal ==
  [][/\ (last'.op = "tick" /\ ~state'.is_paused) =>
          \A p \in PlayerIds : Owned(state', p) = {} => ~state'.players[p].is_alive
     /\ \A p \in PlayerIds : ~state.players[p].is_alive => ~state'.players[p].is_alive]_vars

\* an AI participant was marked not alive by an earlier tick, and an AI turn
\* has run since
C7_Witness ==
  /\ last.op = "execute_ai_turn"
  /\ \E p \in PlayerIds \ {HumanPlayer} :
       ~state.players[p].is_alive /\ Owned(state, p) = {}

\* the GameOver the periodic task has decided on or sent names the one
\* participant alive, and the task starts no further iteration and sends no
\* snapshot with exactly one participant alive
GameOverWhenOneAlive ==
  /\ last.op = "check_game_over" => (stats.some <=> Cardinality(Alive(state)) = 1)
  /\ (loop_pc = "broadcast_game_over" \/ sent_game_over > 0) =>
       /\ stats.some
       /\ Alive(state) = {stats.winner}
  /\ loop_pc \in {"interval", "snapshot"} => Cardinality(Alive(state)) # 1

\* C8 as stated: the number of alive participants becomes 1 only from 2, and
\* GameOver is emitted in the iteration in which exactly one participant is
\* alive for the first time, naming it, and never while two or more are alive.
C8_GameOverOnlyFromTwo ==
  [][/\ (Cardinality(Alive(state')) = 1 /\ Cardinality(Alive(state)) # 1)
          => Cardinality(Alive(state)) = 2
     /\ GameOverWhenOneAlive']_vars

\* C8, amended: game-over triggers when the number of alive participants
\* becomes 1, from 2 or more: the periodic task emits GameOver in the
\* iteration in which exactly one participant is alive for the first time,
\* naming that participant as winner, and never while two or more are alive.
C8_GameOverWhenOneRemains == GameOverWhenOneAlive

\* GameOver naming the human was sent in the iteration of the first tick,
\* which marked both AI participants not alive
C8_Witness ==
  /\ sent_game_over = 1
  /\ stats.winner = HumanPlayer
  /\ Alive(state) = {HumanPlayer}
  /\ state.tick = 1

\* C9: GameOver is broadcast at most once, and after the broadcast the
\* periodic task runs no further tick(), AI turn or snapshot broadcast: the
\* tick counter never advances again.
C9_GameOverIsTerminal ==
  [][/\ sent_game_over' <= 1
     /\ sent_game_over' >= 1 => loop_pc' = "done"
     /\ sent_game_over >= 1 =>
          /\ sent_game_over' = sent_game_over
          /\ state'.tick = state.tick
          /\ last_snapshot' = last_snapshot
          /\ last'.op \notin {"tick", "tick_ai", "execute_ai_turn", "check_game_over",
                              "broadcast_game_over", "snapshot"}]_vars

\* an order of the human was carried out after GameOver had been broadcast,
\* at a time the periodic task had iterations left to run
C9_Witness ==
  /\ sent_game_over = 1
  /\ last.op = "Attack"
  /\ ticks_left > 0

\* the costs of the structures as the claims state them
StatedCost(building_type) ==
  CASE building_type = "City" -> 1000
    [] building_type = "DefensePost" -> 500
    [] building_type = "GoldMine" -> 750

\* C11: build_structure fails and leaves gold, max_population and every
\* territory's structure unchanged whenever the participant does not own the
\* territory, the territory already has a structure, the participant's gold
\* is below the cost (City 1000, Defense-Post 500, Gold-Mine 750), or the
\* territory identifier is unknown.
C11_InvalidBuildRejected ==
  [][\A territory \in TerritoryIds \cup {UnknownTerritory},
        building_type \in BuildingType :
       (/\ BuildStructure(territory, building_type)
        /\ \/ territory \notin TerritoryIds
           \/ state.territories[territory].owner # HumanPlayer
           \/ state.territories[territory].building # NoBuilding
           \/ state.players[HumanPlayer].gold < StatedCost(building_type))
         => (~last'.ok /\ last'.err # "" /\ state' = state)]_vars

\* a build on an own, empty territory was refused with one unit of gold
\* missing for a City
C11_Witness ==
  /\ last.op = "BuildStructure"
  /\ last.err = "Not enough gold"
  /\ state.players[HumanPlayer].gold = 999

\* C12: a successful build_structure reduces the builder's gold by exactly
\* the structure's cost, raises the builder's max_population by 25,000 if
\* and only if the structure is a City, installs the structure on the named
\* territory, and changes nothing else in the world state.
C12_SuccessfulBuildEffects ==
  [][\A territory \in TerritoryIds, building_type \in BuildingType :
       (BuildStructure(territory, building_type) /\ last'.ok) =>
         state' = [state EXCEPT
                     !.players[HumanPlayer].gold = @ - StatedCost(building_type),
                     !.players[HumanPlayer].max_population =
                        IF building_type = "City" THEN @ + 25000 ELSE @,
                     !.territories[territory].building = building_type]]_vars

\* the human spent all of its 1000 gold on a City
C12_Witness ==
  /\ last.op = "BuildStructure" /\ last.ok
  /\ last.building = "City"
  /\ state.territories[last.territory].building = "City"
  /\ state.players[HumanPlayer].gold = 0
  /\ state.players[HumanPlayer].max_population = StartMaxPopulation + 25000

\* C13: after a structure has been installed on a territory, every later
\* BuildStructure on that territory fails, whoever calls, whatever the
\* caller's gold and whoever has come to own the territory, and the installed
\* structure stays as it is.
C13_BuildOncePerTerritory ==
  [][/\ \A t \in TerritoryIds :
          state.territories[t].building # NoBuilding =>
            state'.territories[t].building = state.territories[t].building
     /\ \A territory \in TerritoryIds, building_type \in BuildingType :
          (/\ BuildStructure(territory, building_type)
           /\ state.territories[territory].building # NoBuilding)
            => (~last'.ok /\ state' = state)]_vars

\* the human, with gold for any structure, was refused a build on territory
\* 3, which it had conquered with its structure since the last tick
C13_Witness ==
  /\ last.op = "BuildStructure"
  /\ last.err = "Territory already has a building"
  /\ state.players[HumanPlayer].gold >= 1000
  /\ state.territories[3].owner = HumanPlayer
  /\ state.territories[3].building = "GoldMine"
  /\ \A t \in TerritoryIds \ {3} :
       state.territories[t].owner = HumanPlayer =>
         state.territories[t].building = NoBuilding

\* C14: while the game is paused, tick() is a no-op: the tick counter, the
\* elapsed time and every participant's population, gold,
\* territories_controlled and alive flag are unchanged.
C14_PausedTickIsNoOp ==
  [][(Tick /\ state.is_paused) => state' = state]_vars

\* a paused world was ticked in which the human's population is below its
\* maximum and its gold would have grown
C14_Witness ==
  /\ last.op = "tick"
  /\ state.is_paused
  /\ state.tick = 0
  /\ state.players[HumanPlayer].population < state.players[HumanPlayer].max_population
  /\ workers(state.players[HumanPlayer]) > 0

\* C15: each unpaused tick advances the tick counter by 1 and the elapsed
\* time by the tick period times the speed: over k unpaused ticks at a 100 ms
\* period and speed s the elapsed time grows by k * 0.1 * s seconds, within
\* one second of rounding (speeds are in tenths, so k * s is in hundredths of
\* a second).
C15_ElapsedTimeAdvances ==
  /\ state.tick + ticks_left <= MaxClockTicks
  /\ (~state.is_paused => state.tick + ticks_left = MaxClockTicks)
  /\ 100 * state.game_time_seconds + 100 >= state.tick * state.game_speed
  /\ 100 * state.game_time_seconds <= state.tick * state.game_speed + 100

\* C16: the game-speed multiplier lies within [0.5, 4.0] in every reachable
\* state, and SetGameSpeed(v) stores v clamped into that interval (speeds in
\* tenths).
C16_SpeedClamped ==
  /\ state.game_speed >= 5
  /\ state.game_speed <= 40
  /\ last.op = "SetGameSpeed" =>
       state.game_speed = IF last.requested < 5 THEN 5
                          ELSE IF last.requested > 40 THEN 40
                          ELSE last.requested

\* a speed of 10.0 was requested and 4.0 was stored
C16_Witness ==
  /\ last.op = "SetGameSpeed"
  /\ last.requested = 100
  /\ state.game_speed = 40

\* C17: a full snapshot is broadcast on ticks 5, 10, 15, ... and never while
\* the tick counter has any other value, 0 included: the step of the periodic
\* task that decides on the snapshot puts a GameStateUpdate on the clients'
\* channels exactly when the counter is a positive multiple of 5.
C17_SnapshotOnFifthTicksOnly ==
  last.op = "snapshot" =>
    ((\E conn \in Connections :
        \E i \in DOMAIN outbox[conn] : outbox[conn][i].type = "GameStateUpdate")
       <=> (state.tick > 0 /\ state.tick % 5 = 0))

\* C18: writers are mutually exclusive with writers and with readers, each
\* command's validation and mutation happen inside one exclusive section,
\* and every snapshot a reader sends is a state between complete commands
\* or ticks: a write guard is never out beside another guard; the world
\* changes only in a step of the holder of a write guard and never while a
\* read guard is out; the verdict an Attack was validated with is still the
\* verdict of the world it mutates; and a GameStateUpdate carries the world
\* as it stands, with no write guard out.
C18_SectionsAreExclusive ==
  /\ [](\A guard \in engine_lock : guard.mode = "write" => engine_lock = {guard})
  /\ [](\A conn \in Connections : \A i \in DOMAIN outbox[conn] :
          outbox[conn][i].type = "GameStateUpdate" =>
            (outbox[conn][i].payload = state /\ CanRead))
  /\ [][/\ state' # state =>
             \E guard \in engine_lock \cup engine_lock' : guard.mode = "write"
        /\ (\E guard \in engine_lock : guard.mode = "read") => state' = state
        /\ \A conn \in Connections :
             Apply(conn) =>
               handlers[conn].verdict =
                 attack_validation(state, HumanPlayer, handlers[conn].message.from,
                                   handlers[conn].message.to)]_vars

\* a handler holds the write guard with its attack validated, while the
\* other connection's handler has a command to handle and the periodic task
\* is due
C18_Witness ==
  /\ handlers[1].pc = "checked"
  /\ handlers[1].verdict = ""
  /\ engine_lock = {WriteGuard(1)}
  /\ handlers[2].pc = "recv"
  /\ cmds_left > 0
  /\ loop_pc = "interval"
  /\ ticks_left > 0

\* C19: in each iteration of the periodic task tick(), the troop
\* redistribution with the autonomous turns, and the game-over check run in
\* that order inside a single exclusive section: the task holds the write
\* guard, alone, from tick() until the check, and the operation applied last
\* is the task's own previous step, never a client command.
C19_TickSectionIsExclusive ==
  /\ loop_pc = "tick_ai" =>
       (engine_lock = {WriteGuard(TickTask)} /\ last.op = "tick")
  /\ loop_pc = "tick_all" =>
       (engine_lock = {WriteGuard(TickTask)} /\ last.op \in {"tick_ai", "execute_ai_turn"})
  /\ last.op = "check_game_over" =>
       (loop_pc \in {"snapshot", "broadcast_game_over"} /\ WriteGuard(TickTask) \notin engine_lock)
  /\ WriteGuard(TickTask) \in engine_lock => loop_pc \in {"tick_ai", "tick_all"}

\* the task is between the autonomous turns and the game-over check of its
\* second iteration while a client command is still to come
C19_Witness ==
  /\ loop_pc = "tick_all"
  /\ ai_players = <<>>
  /\ last.op = "execute_ai_turn"
  /\ state.tick = 2
  /\ cmds_left > 0

\* C20: when an Attack or a BuildStructure fails validation, the Error event
\* is put on the outbound channel of the connection that issued the command
\* and on no other connection's channel, also when several connections are
\* registered at once, and the connection's handler goes on receiving.
C20_ErrorOnlyToIssuer ==
  (last.op \in {"Attack", "BuildStructure"} /\ ~last.ok) =>
    /\ handlers[last.conn].pc = "recv"
    /\ \A conn \in Connections :
         (\E i \in DOMAIN outbox[conn] : outbox[conn][i].type = "Error")
           <=> conn = last.conn

\* C21: a client disconnect only deregisters that client's observer: every
\* other open connection stays registered and receives the later broadcasts
\* (the events of a successful Attack or BuildStructure).
C21_DisconnectKeepsOthersRegistered ==
  /\ \A conn \in Connections :
       handlers[conn].pc # "closed" => \E i \in DOMAIN clients : clients[i].conn = conn
  /\ (last.op \in {"Attack", "BuildStructure"} /\ last.ok) =>
       \A conn \in Connections : handlers[conn].pc # "closed" => outbox[conn] # <<>>

\* C22: every attack that resolves successfully, by a client command or by an
\* AI participant's turn in the periodic task, puts exactly one AttackResult
\* carrying its combat outcome on the channel of every registered client.
C22_EveryResolvedAttackIsBroadcast ==
  (last.op \in {"Attack", "execute_ai_turn"} /\ last.ok) =>
    \A i \in DOMAIN clients :
      Len(SelectSeq(outbox[clients[i].conn],
                    LAMBDA m : m.type = "AttackResult" /\ m.payload = last.result)) = 1

\* C23: a failed build or attack attempt of an AI participant is discarded.
\* No build that try_build can attempt fails validation; a turn whose attack
\* fails leaves the world as the turn's ratio update and build left it, puts
\* no message on any channel, and the remaining AI participants still take
\* their turns in the same iteration.
C23_FailedAiAttemptIsDiscarded ==
  [][(loop_pc = "tick_all" /\ ai_players # <<>>) =>
       LET player_id == Head(ai_players)
           personality == state.players[player_id].ai_personality
           ratios == update_ratios(state, player_id, personality)
       IN /\ \A t \in Owned(ratios, player_id), building_type \in BuildingType :
               (/\ ratios.territories[t].building = NoBuilding
                /\ ratios.players[player_id].gold >= cost(building_type))
                 => build_structure(ratios, player_id, t, building_type).ok
          /\ last'.err # "" =>
               /\ state' \in try_build(ratios, player_id, personality)
               /\ outbox' = NoMessages
               /\ loop_pc' = "tick_all"
               /\ ai_players' = Tail(ai_players)]_vars

C23_Witness ==
  /\ last.op = "execute_ai_turn"
  /\ last.err # ""
  /\ loop_pc = "tick_all"
  /\ ai_players # <<>>

\* C24: the attack attempt of an AI participant enumerates all the pairs of
\* a territory it owns and an adjacent territory it does not own, the neutral
\* ones included.
C24_AttackOptionsCoverNeutrals ==
  (loop_pc = "tick_all" /\ ai_players # <<>>) =>
    LET player_id == Head(ai_players)
        options == attack_options(state, player_id)
    IN {<<options[i][1], options[i][2]>> : i \in DOMAIN options}
         = {<<from, to>> \in TerritoryIds \X TerritoryIds :
              /\ state.territories[from].owner = player_id
              /\ SeqContains(neighbors[from], to)
              /\ state.territories[to].owner # player_id}

\* C25: the attack an AI participant makes goes to a target that satisfies
\* its personality's rule over the pairs the attempt enumerates: the Turtle's
\* troops exceed three times the defending garrison, which is the least among
\* such pairs; the Balanced's troops exceed the garrison, the least among such
\* pairs; the Aggressor's target has the least garrison of all; the
\* Opportunist's the least (garrison, defender's territory count); the
\* Rusher's is any enumerated pair.
C25_TargetFollowsPersonality ==
  [][(loop_pc = "tick_all" /\ ai_players # <<>> /\ last'.op = "execute_ai_turn"
        /\ last'.ok) =>
       LET player_id == Head(ai_players)
           personality == state.players[player_id].ai_personality
           our_troops == troops(update_ratios(state, player_id, personality).players[player_id])
           pairs == {<<from, to>> \in TerritoryIds \X TerritoryIds :
                       /\ state.territories[from].owner = player_id
                       /\ SeqContains(neighbors[from], to)
                       /\ state.territories[to].owner \notin {player_id, None}}
           d(pair) == state.territories[pair[2]].troops
           count(pair) ==
             state.players[state.territories[pair[2]].owner].territories_controlled
           target == <<last'.result.from_territory, last'.result.to_territory>>
       IN /\ target \in pairs
          /\ CASE personality = "Turtle" ->
                    /\ our_troops > 3 * d(target)
                    /\ \A pair \in pairs : our_troops > 3 * d(pair) => d(target) <= d(pair)
               [] personality = "Balanced" ->
                    /\ our_troops > d(target)
                    /\ \A pair \in pairs : our_troops > d(pair) => d(target) <= d(pair)
               [] personality = "Aggressor" ->
                    \A pair \in pairs : d(target) <= d(pair)
               [] personality = "Opportunist" ->
                    \A pair \in pairs :
                      \/ d(target) < d(pair)
                      \/ d(target) = d(pair) /\ count(target) <= count(pair)
               [] personality = "Rusher" -> TRUE]_vars

\* a Turtle's attack on a garrisoned territory has resolved
C25_Witness ==
  /\ last.op = "execute_ai_turn"
  /\ last.ok
  /\ state.players[last.requested].ai_personality = "Turtle"
  /\ last.result.defender_troops > 0

\* C26: in every iteration of the periodic task, after tick() and before any
\* AI participant acts, every territory owned by an alive participant has the
\* garrison floor(total troops / number of territories its owner owns).
C26_GarrisonsAreEvenShares ==
  (loop_pc = "tick_all" /\ last.op = "tick_ai") =>
    \A t \in TerritoryIds :
      LET owner == state.territories[t].owner
      IN (owner # None /\ state.players[owner].is_alive) =>
           state.territories[t].troops
             = troops(state.players[owner]) \div Cardinality(Owned(state, owner))

\* C27: an unpaused tick adds floor(10 * territories_controlled * growth_bonus
\* * dt) to the population of every alive participant, capped at
\* max_population, with dt = tick period in seconds * speed and growth_bonus =
\* 1 + 0.2 * (owned Forests) / (owned territories), 1.0 when it owns none;
\* a participant that is not alive gains nothing.
C27_PopulationGrowth ==
  [][(last'.op = "tick" /\ ~state.is_paused) =>
       \A p \in PlayerIds :
         LET player == state.players[p]
             owned == Cardinality(Owned(state, p))
             forests == Cardinality({t \in Owned(state, p) :
                                       state.territories[t].terrain = "Forests"})
             \* growth_bonus in tenths of 1 / owned
             bonus == IF owned = 0 THEN <<1, 1>> ELSE <<10 * owned + 2 * forests, 10 * owned>>
             growth == (10 * player.territories_controlled * bonus[1]
                          * tick_rate_ms * state.game_speed)
                         \div (bonus[2] * 10000)
         IN state'.players[p].population
              = IF player.is_alive
                THEN min(player.population + growth, player.max_population)
                ELSE player.population]_vars

\* C28: right after every unpaused tick(), each participant's
\* territories_controlled is the number of territories it owns, and the sum
\* over the participants is the number of territories that are not neutral.
C28_CountsMatchOwnership ==
  (last.op = "tick" /\ ~state.is_paused) =>
    LET count == [p \in PlayerIds |-> state.players[p].territories_controlled]
    IN /\ \A p \in PlayerIds :
            count[p] = Cardinality({t \in TerritoryIds : state.territories[t].owner = p})
       /\ SumOver(count, PlayerIds)
            = Cardinality({t \in TerritoryIds : state.territories[t].owner # None})

\* the tick after a conquest that gave a participant its fourth territory
C28_Witness ==
  /\ last.op = "tick"
  /\ ~state.is_paused
  /\ \E p \in PlayerIds : state.players[p].territories_controlled = 4

\* C29: in every generated world every territory has at least 1 and at most
\* 6 neighbours, and the neighbour relation is symmetric.
C29_NeighbourListsBounded ==
  last.op = "generate" =>
    \A t \in DOMAIN state.territories :
      /\ Len(state.territories[t].neighbors) >= 1
      /\ Len(state.territories[t].neighbors) <= 6
      /\ \A u \in DOMAIN state.territories :
           SeqContains(state.territories[t].neighbors, u)
             <=> SeqContains(state.territories[u].neighbors, t)

\* C30: in every generated world with at least as many territories as
\* participants exactly player_count territories are owned: each participant
\* owns exactly one starting territory, no territory is assigned to two
\* participants, and all the others are neutral.
C30_OneStartPerParticipant ==
  (last.op = "generate" /\ Len(state.territories) >= Len(state.players)) =>
    LET OwnedBy(p) == {t \in DOMAIN state.territories : state.territories[t].owner = p}
    IN /\ Cardinality(DOMAIN state.territories \ OwnedBy(None)) = Len(state.players)
       /\ \A p \in DOMAIN state.players : Cardinality(OwnedBy(p)) = 1
       /\ \A t \in DOMAIN state.territories :
            state.territories[t].owner \in DOMAIN state.players \cup {None}

\* a map of 12 territories for 2 participants in which the first drew the
\* largest offset and the second none
C30_Witness ==
  /\ last.op = "generate"
  /\ Len(state.territories) = 12
  /\ Len(state.players) = 2
  /\ state.territories[5].owner = 1
  /\ state.territories[7].owner = 2
  /\ state.territories[1].owner = None

\* C31: while the game is paused, a step of the periodic task changes no
\* territory's owner, troops or structure and no participant's population,
\* gold or ratios.
C31_PausedLoopChangesNothing ==
  [][(state.is_paused /\ last'.op \in {"tick", "tick_ai", "execute_ai_turn",
                                       "check_game_over", "snapshot"}) =>
       /\ \A t \in TerritoryIds :
            /\ state'.territories[t].owner = state.territories[t].owner
            /\ state'.territories[t].troops = state.territories[t].troops
            /\ state'.territories[t].building = state.territories[t].building
       /\ \A p \in PlayerIds :
            /\ state'.players[p].population = state.players[p].population
            /\ state'.players[p].gold = state.players[p].gold
            /\ state'.players[p].troop_ratio = state.players[p].troop_ratio
            /\ state'.players[p].attack_ratio = state.players[p].attack_ratio]_vars

\* C32: ownership never reverts to neutral: a territory that has an owner
\* has an owner after every step, so the number of territories that are not
\* neutral never decreases.
C32_OwnershipNeverReverts ==
  [][/\ \A t \in TerritoryIds :
          state.territories[t].owner # None => state'.territories[t].owner # None
     /\ Cardinality({t \in TerritoryIds : state'.territories[t].owner # None})
          >= Cardinality({t \in TerritoryIds : state.territories[t].owner # None})]_vars

\* a participant's territory has been conquered by another participant
C32_Witness ==
  /\ last.op \in {"Attack", "execute_ai_turn"}
  /\ last.ok
  /\ last.result.territory_conquered
  /\ last.result.defender_id # None
  /\ state.territories[last.result.to_territory].owner = last.result.attacker_id

\* C33: with at least one territory owned in the initial world, at least one
\* participant is alive in every reachable state.
C33_SomeoneIsAlive ==
  (\E t \in TerritoryIds : state.territories[t].owner # None) => Alive(state) # {}

\* the elimination pass has left a single participant alive
C33_Witness ==
  /\ last.op = "tick"
  /\ Cardinality(Alive(state)) = 1
  /\ \E t \in TerritoryIds : state.territories[t].owner # None

\* C34: a combat conquers only when the attacker outnumbers the defenders of
\* a territory without Mountains terrain and without Defense-Post, or when
\* the garrison is empty; with at least one defender an attack on Mountains
\* or on a Defense-Post, or with no more troops than the defenders, never
\* conquers.  On every conquest the attacker's losses are at most the
\* committed troops, and the new garrison is committed - losses.
C34_ConquestOnlyWhenOutnumbered ==
  (last.op \in {"calculate_combat", "Attack"} /\ last.ok /\ last.result.territory_conquered) =>
    LET a == last.result.attacker_troops_committed
        d == last.result.defender_troops
        target == state.territories[last.result.to_territory]
    IN /\ \/ d = 0
          \/ /\ a > d
             /\ target.terrain # "Mountains"
             /\ target.building # "DefensePost"
       /\ last.result.attacker_losses <= a
       /\ last.op = "Attack" => target.troops = a - last.result.attacker_losses

\* more troops than the defenders have attacked a garrisoned territory in the
\* mountains and have not conquered it
C34_Witness ==
  /\ last.op = "Attack"
  /\ last.ok
  /\ last.result.attacker_troops_committed > last.result.defender_troops
  /\ last.result.defender_troops >= 1
  /\ state.territories[last.result.to_territory].terrain = "Mountains"
  /\ ~last.result.territory_conquered

\* C35: the engine lock comes before the lock on the client list: a task
\* that holds a guard on the client list never waits, for the engine lock or
\* for anything else, and whenever guards are out one of their holders can
\* take its next step, so the periodic task, the handlers, registration and
\* deregistration never block each other for good.
C35_EngineBeforeClients ==
  /\ \A guard \in clients_lock : ENABLED HandlerStep(guard.holder)
  /\ engine_lock \cup clients_lock # {} =>
       \E guard \in engine_lock \cup clients_lock :
         IF guard.holder = TickTask
         THEN ENABLED TickStep
         ELSE ENABLED HandlerStep(guard.holder)

\* a handler in the Err branch holds the write guard on the engine and asks
\* for the client list while a connection that registers holds the client
\* list's write guard
C35_Witness ==
  /\ handlers[1].pc = "send"
  /\ ~handlers[1].result.ok
  /\ engine_lock = {WriteGuard(1)}
  /\ clients_lock = {WriteGuard(2)}
  /\ ~ENABLED Send(1)

\* C36: when two Attack commands from different connections both succeed,
\* every observer registered throughout receives their AttackResult events in
\* the order in which the attacks were applied: at the step that puts the
\* AttackResult of one attack on the observers' channels, no attack that was
\* applied before it still has its AttackResult to send.
C36_ResultsInApplicationOrder ==
  [][\A conn \in Connections :
       (/\ Send(conn)
        /\ handlers[conn].message.type = "Attack"
        /\ handlers[conn].result.ok)
       => \A other \in Connections \ {conn} :
            ~(/\ handlers[other].pc = "send"
              /\ handlers[other].message.type = "Attack"
              /\ handlers[other].result.ok
              /\ handlers[other].order > handlers[conn].order
              /\ \E observer \in Connections :
                   \E i \in DOMAIN outbox'[observer] :
                     outbox'[observer][i].type = "AttackResult")]_vars

\* C37: the periodic task broadcasts at most one snapshot per value of the
\* tick counter: a periodic GameStateUpdate never carries the tick counter
\* the previous one carried, whatever pause and resume commands come in
\* between.
C37_OneSnapshotPerTick ==
  [][(LoopSnapshot /\ state.tick % 5 = 0) => state.tick # last_snapshot]_vars

====
